---------------------------- MODULE Spec2Model ----------------------------
(***************************************************************************)
(* Model of the rating / season-simulation engine of birdland-metrics.    *)
(*                                                                         *)
(* Fixed-point conventions (the Python code uses floats):                  *)
(*   ratings          : integers in hundredths of a rating point           *)
(*   probabilities    : integers in 1/10000 (ProbScale)                    *)
(*   MOV multipliers  : integers in 1/1000  (MovScale)                     *)
(* 10**x, log, cos and exp are tabulated from their double values.         *)
(* Divisions round to nearest, symmetrically in the sign (RoundDiv), as    *)
(* IEEE arithmetic does.                                                   *)
(***************************************************************************)
EXTENDS Integers, Sequences, FiniteSets, TLC

VARIABLES
    \* ---- game-by-game rating replay (run_model, compute_elo,
    \*      backtest_season, the loop of mlb-elo-compute) ----
    engine,        \* which replay implementation runs
    raw_rows,      \* the schedule rows as read from the file, unsorted
    games,         \* the loaded list the loop iterates over
    rpc,           \* "load" | "loop" | "done"
    gi,            \* index of the next game of the loop
    elos,          \* team -> rating (NoRating when the dict has no entry)
    baseline,      \* the rating table the run started from
    games_played,  \* team -> games processed so far (backtest_season)
    fade_games,    \* backtest_season's fade_games argument
    mov_cap,       \* the MOV_CAP mlb_common.elo is configured with, in 1/1000
    results,       \* what the loop recorded, one entry per processed game
    \* ---- Monte Carlo season simulation (simulate_season, compute_snapshot) ----
    sim_impl,      \* which simulation implementation runs
    schedule,      \* the schedule rows, completed and remaining, in file order
    elo_ratings,   \* team -> rating the simulation is given
    elo_given,     \* the ratings as handed to the simulation (never assigned)
    fip_on,        \* whether fip_dict / lg_fip were loaded
    sim_pc,        \* "idle" | "seed" | "simulate" | "done"
    fi,            \* index of the next schedule row of the simulation loop
    actual_wins,   \* team -> wins counted from the completed rows
    sim_matrix,    \* trial -> team -> win total
    sim_log,       \* one entry per fixture the loop simulated
    \* ---- playoff odds (compute_playoff_odds, compute_snapshot,
    \*      compute_al_playoff_odds) ----
    odds_impl,     \* which playoff-odds implementation runs
    odds_teams,    \* the sorted team list the calculator is given
    odds_pc,       \* "idle" | "trials" | "done"
    sim_idx,       \* number of trials processed so far
    al_wins,       \* team -> wins in the trial processed last
    div_winners,   \* the division winners of the trial processed last
    wc_teams,      \* the wildcard teams of the trial processed last
    playoff_count, \* team -> trials in which it made the playoffs
    division_count,\* team -> trials in which it won its division
    wildcard_count,\* team -> trials in which it took a wildcard
    \* ---- preseason blending (regress_elo, regress_elo_to_preseason,
    \*      backtest_season) ----
    fade_impl,     \* which blending implementation runs
    curve,         \* the fade curve (regress_elo only; linear elsewhere)
    fade_n,        \* FADE_GAMES, or backtest_season's fade_games argument
    current_elo,   \* team -> in-season rating
    preseason_elo, \* team -> preseason rating (NoRating when the dict has no entry)
    team_gp,       \* team -> games played
    fade_queue,    \* the teams the loop has still to blend
    regressed,     \* team -> blended rating (NoRating until computed)
    pct,           \* team -> weight put on the current rating, in 1/1000
    fade_pc,       \* "idle" | "loop" | "done"
    \* ---- probability shrinkage (apply_shrinkage, run_model) ----
    shrink_impl,   \* which code applies the shrinkage
    shrinkage,     \* PROB_SHRINKAGE as configured, in 1/10000
    raw_probs,     \* the raw probabilities still to be shrunk
    shrunk_log,    \* <<raw, shrunk>> of every probability shrunk so far
    shrink_pc,     \* "idle" | "loop" | "done"
    \* ---- the daily rating job on float ratings (mlb-elo-compute) ----
    elo_loaded,    \* team -> rating as loaded (never assigned)
    team_elo,      \* team -> rating, possibly NaN or infinite
    elo_table,     \* team -> rating put to the rating table (NoRating: no item)
    day_games,     \* yesterday's games still to process
    store_cap,     \* MOV_CAP, in 1/1000
    store_pc,      \* "idle" | "loop" | "done"
    \* ---- the adjustment model for one game ----
    adj_impl,      \* "run_model" | "enhanced_probability"
    ctx,           \* the game and the tables its adjustments are read from
    adj_out,       \* the adjustments and the probability computed
    adj_pc,        \* "idle" | "game" | "done"
    \* ---- the injury adjustment of one team ----
    inj_impl,      \* "compute_injury_adjustments" | "injury_impact"
    war_tables,    \* batting and pitching WAR, current and prior season
    il_roster,     \* the team's injured players, by MLB id
    il_i,          \* index of the next player of the loop
    total_war_lost,
    player_details,
    elo_adjustment,
    inj_pc,        \* "idle" | "players" | "done"
    \* ---- the preseason-adjustment job ----
    original_baseline, \* the end-of-season file before any run (never assigned)
    baseline_csv,      \* the object under ELO_PRIOR_SEASON_KEY
    raw_csv,           \* the object under the raw key, NoFile when absent
    rating_items,      \* the rating table items the job has put
    last_adjustments,  \* the adjustments of the latest run
    pre_runs,          \* runs so far, -1 when idle
    \* ---- one run of the season-projections job ----
    elo_items,     \* the rating table: team -> rating
    s3_objects,    \* <<bucket, key>> -> body
    proj_gp,       \* team -> completed games in the schedule
    adjusted_elo,  \* the ratings handed to the simulator, <<>> before the load
    proj_pc,       \* "idle" | "load" | "predictions" | ... | "done"
    \* ---- the parameter sweep ----
    sweep_v2,      \* the v2 argument of sweep_parameters
    sweep_data,    \* the season's data files
    sweep_i,       \* index of the next configuration of the grid
    sweep_results, \* sweep_results
    sweep_pc,      \* "idle" | "loop" | "aborted" | "done"
    \* ---- single calls of the rating functions ----
    fn_call,       \* the function called, the module it is from and its arguments
    fn_ret,        \* what the call returned or raised, NoReturn before it
    \* ---- the travel tracker of run_model ----
    travel_rows,   \* the Final rows of the schedule file, in file order
    travel_games,  \* games: the rows sorted by date
    prev_venue,    \* <<team, date>> -> venue_team of the previous game
    travel_i,      \* index of the next game of the loop
    travel_log,    \* per processed game: the previous venue found, the penalty
    travel_pc,     \* "idle" | "load" | "loop" | "done"
    \* ---- the daily pipeline over several days ----
    season,        \* gamePk -> official date, home and away team (never assigned)
    today,         \* the UTC day
    api_final,     \* the games whose final score the MLB API reports
    schedule_csv,  \* the games whose row of the schedule file has both scores
    elo_csv,       \* the current-season rating log, <<>> while there is no file
    load_record,   \* team_elo as the latest invocation loaded it, and when
    sync_runs,     \* invocations of mlb-schedule-sync today
    elo_runs,      \* invocations of mlb-elo-compute today
    reinvoked      \* whether mlb-elo-compute has run twice on one day

replayVars == <<engine, raw_rows, games, rpc, gi, elos, baseline,
                games_played, fade_games, mov_cap, results>>

simVars == <<sim_impl, schedule, elo_ratings, elo_given, fip_on, sim_pc, fi,
             actual_wins, sim_matrix, sim_log>>

oddsVars == <<odds_impl, odds_teams, odds_pc, sim_idx, al_wins, div_winners,
              wc_teams, playoff_count, division_count, wildcard_count>>

fadeVars == <<fade_impl, curve, fade_n, current_elo, preseason_elo, team_gp,
              fade_queue, regressed, pct, fade_pc>>

shrinkVars == <<shrink_impl, shrinkage, raw_probs, shrunk_log, shrink_pc>>

storeVars == <<elo_loaded, team_elo, elo_table, day_games, store_cap, store_pc>>

adjVars == <<adj_impl, ctx, adj_out, adj_pc>>

injVars == <<inj_impl, war_tables, il_roster, il_i, total_war_lost, player_details,
             elo_adjustment, inj_pc>>

preVars == <<original_baseline, baseline_csv, raw_csv, rating_items, last_adjustments,
             pre_runs>>

projVars == <<elo_items, s3_objects, proj_gp, adjusted_elo, proj_pc>>

sweepVars == <<sweep_v2, sweep_data, sweep_i, sweep_results, sweep_pc>>

fnVars == <<fn_call, fn_ret>>

trackVars == <<travel_rows, travel_games, prev_venue, travel_i, travel_log, travel_pc>>

dailyVars == <<season, today, api_final, schedule_csv, elo_csv, load_record, sync_runs,
               elo_runs, reinvoked>>

nonReplayVars == <<simVars, oddsVars, fadeVars, shrinkVars, storeVars,
                   adjVars, injVars, preVars, projVars, sweepVars, fnVars,
                   trackVars, dailyVars>>
nonSimVars == <<replayVars, oddsVars, fadeVars, shrinkVars, storeVars,
                adjVars, injVars, preVars, projVars, sweepVars, fnVars,
                trackVars, dailyVars>>
nonOddsVars == <<replayVars, simVars, fadeVars, shrinkVars, storeVars,
                 adjVars, injVars, preVars, projVars, sweepVars, fnVars,
                 trackVars, dailyVars>>
nonFadeVars == <<replayVars, simVars, oddsVars, shrinkVars, storeVars,
                 adjVars, injVars, preVars, projVars, sweepVars, fnVars,
                 trackVars, dailyVars>>
nonShrinkVars == <<replayVars, simVars, oddsVars, fadeVars, storeVars,
                   adjVars, injVars, preVars, projVars, sweepVars, fnVars,
                   trackVars, dailyVars>>
nonStoreVars == <<replayVars, simVars, oddsVars, fadeVars, shrinkVars,
                  adjVars, injVars, preVars, projVars, sweepVars, fnVars,
                  trackVars, dailyVars>>
nonAdjVars == <<replayVars, simVars, oddsVars, fadeVars, shrinkVars,
                storeVars, injVars, preVars, projVars, sweepVars, fnVars,
                trackVars, dailyVars>>
nonInjVars == <<replayVars, simVars, oddsVars, fadeVars, shrinkVars,
                storeVars, adjVars, preVars, projVars, sweepVars, fnVars,
                trackVars, dailyVars>>
nonPreVars == <<replayVars, simVars, oddsVars, fadeVars, shrinkVars,
                storeVars, adjVars, injVars, projVars, sweepVars, fnVars,
                trackVars, dailyVars>>
nonProjVars == <<replayVars, simVars, oddsVars, fadeVars, shrinkVars,
                 storeVars, adjVars, injVars, preVars, sweepVars, fnVars,
                 trackVars, dailyVars>>
nonSweepVars == <<replayVars, simVars, oddsVars, fadeVars, shrinkVars,
                  storeVars, adjVars, injVars, preVars, projVars, fnVars,
                  trackVars, dailyVars>>
nonFnVars == <<replayVars, simVars, oddsVars, fadeVars, shrinkVars,
               storeVars, adjVars, injVars, preVars, projVars, sweepVars,
               trackVars, dailyVars>>
nonTrackVars == <<replayVars, simVars, oddsVars, fadeVars, shrinkVars,
                  storeVars, adjVars, injVars, preVars, projVars, sweepVars,
                  fnVars, dailyVars>>
nonDailyVars == <<replayVars, simVars, oddsVars, fadeVars, shrinkVars,
                  storeVars, adjVars, injVars, preVars, projVars, sweepVars,
                  fnVars, trackVars>>

vars == <<replayVars, simVars, oddsVars, fadeVars, shrinkVars, storeVars,
          adjVars, injVars, preVars, projVars, sweepVars, fnVars, trackVars,
          dailyVars>>

-----------------------------------------------------------------------------
(* Scales and arithmetic helpers *)

Cents == 100
ProbScale == 10000
MovScale == 1000
NoRating == -1
NA == -1

Abs(x) == IF x < 0 THEN -x ELSE x
Min(a, b) == IF a <= b THEN a ELSE b
Max(a, b) == IF a >= b THEN a ELSE b

\* n / d rounded to the nearest integer, halves away from zero (d > 0)
RoundDiv(n, d) ==
    IF n >= 0 THEN (2 * n + d) \div (2 * d)
              ELSE -((2 * (-n) + d) \div (2 * d))

RECURSIVE SumOver(_, _)
SumOver(f, S) ==
    IF S = {} THEN 0
    ELSE LET x == CHOOSE y \in S : TRUE IN f[x] + SumOver(f, S \ {x})

-----------------------------------------------------------------------------
(* Program constants *)

ELO_K == 20
ELO_HFA == 55
ELO_INIT == 1500
BACKTEST_K == 6
FIP_WEIGHT == 50
\* MOV_MULTIPLIER = 2.2, in 1/1000
MOV_MULTIPLIER == 2200
\* PROB_SHRINKAGE = 0.16, in 1/10000
PROB_SHRINKAGE == 1600

-----------------------------------------------------------------------------
(* ELO math *)

\* 1 / (1 + 10 ** (-d / 400)) in 1/10000 for d = -800, -775, ..., 800
LogisticTable ==
    << 99, 114, 132, 152, 175, 201, 232, 267, 307, 352, 405, 464, 532,
       610, 698, 797, 909, 1035, 1177, 1334, 1510, 1704, 1917, 2150,
       2403, 2675, 2966, 3275, 3599, 3937, 4285, 4641, 5000, 5359, 5715,
       6063, 6401, 6725, 7034, 7325, 7597, 7850, 8083, 8296, 8490, 8666,
       8823, 8965, 9091, 9203, 9302, 9390, 9468, 9536, 9595, 9648, 9693,
       9733, 9768, 9799, 9825, 9848, 9868, 9886, 9901 >>

LogisticStep == 2500
LogisticSpan == 80000

\* the mutant of ExpectedScore: the home-field advantage is built in instead
\* of being the caller's argument
ExpectedScoreHomeBuiltIn(elo_a, elo_b, hfa) ==
    LET d == (elo_a + ELO_HFA * Cents) - elo_b
        c == Max(-LogisticSpan, Min(LogisticSpan, d)) + LogisticSpan
        i == c \div LogisticStep + 1
        r == c % LogisticStep
    IN  IF i >= Len(LogisticTable) THEN LogisticTable[Len(LogisticTable)]
        ELSE LogisticTable[i]
             + RoundDiv((LogisticTable[i + 1] - LogisticTable[i]) * r, LogisticStep)

\* expected_score(elo_a, elo_b, hfa): 1 / (1 + 10 ** ((elo_b - (elo_a + hfa)) / 400))
\* ratings in hundredths, hfa in rating points; linear between table points
ExpectedScore(elo_a, elo_b, hfa) ==
    LET d == (elo_a + hfa * Cents) - elo_b
        c == Max(-LogisticSpan, Min(LogisticSpan, d)) + LogisticSpan
        i == c \div LogisticStep + 1
        r == c % LogisticStep
    IN  IF i >= Len(LogisticTable) THEN LogisticTable[Len(LogisticTable)]
        ELSE LogisticTable[i]
             + RoundDiv((LogisticTable[i + 1] - LogisticTable[i]) * r, LogisticStep)

\* math.log(n + 1) in 1/1000 for n = 0 .. 11
LogTable == << 0, 693, 1099, 1386, 1609, 1792, 1946, 2079, 2197, 2303, 2398, 2485 >>

\* log(|score_diff| + 1) * (MOV_MULTIPLIER / (0.001 * |elo_diff| + MOV_MULTIPLIER))
\* elo_diff in hundredths of a point; result in 1/1000
MarginOfVictoryMult(score_diff, elo_diff) ==
    RoundDiv(LogTable[Abs(score_diff) + 1] * (MOV_MULTIPLIER * Cents),
             Abs(elo_diff) + MOV_MULTIPLIER * Cents)

\* k * mov_mult * (actual - expected), in hundredths of a point
\* (actual and expected in 1/10000, mov_mult in 1/1000)
EloShift(k, mov_mult, actual, expected) ==
    RoundDiv(k * mov_mult * (actual - expected), (MovScale * ProbScale) \div Cents)

\* the mutant of ApplyShrinkage: the slope is 1 - s instead of 1 - 2s
ApplyShrinkageOneSided(s, raw_prob) ==
    RoundDiv(s * ProbScale + (ProbScale - s) * raw_prob, ProbScale)

\* PROB_SHRINKAGE + (1 - 2 * PROB_SHRINKAGE) * raw_prob, shrinkage s as a parameter
ApplyShrinkage(s, raw_prob) ==
    RoundDiv(s * ProbScale + (ProbScale - 2 * s) * raw_prob, ProbScale)


-----------------------------------------------------------------------------
(* Inputs of the replay: teams, schedule rows, starting tables *)

MaxGames == 2

ReplayTeams == {"BAL", "BOS", "NYY", "TOR"}
Matchups == { <<"BAL", "BOS">>, <<"BOS", "BAL">>, <<"NYY", "BAL">>, <<"TOR", "NYY">> }
\* <<homeScore, awayScore>> of a Final row: a home win, an away win, level scores
Outcomes == { <<1, 0>>, <<0, 3>>, <<2, 2>> }
ReplayDates == {1, 2}
\* the date mlb-elo-compute calls yesterday
Yesterday == 2

ScheduleRows ==
    { [date |-> d, home |-> m[1], away |-> m[2], home_score |-> o[1], away_score |-> o[2]] :
        d \in ReplayDates, m \in Matchups, o \in Outcomes }

SeqsUpTo(S, n) == UNION { [1..k -> S] : k \in 1..n }

\* rating files, in hundredths of a point
FullTable == [t \in ReplayTeams |->
                CASE t = "BAL" -> 152000
                  [] t = "BOS" -> 150000
                  [] t = "NYY" -> 147500
                  [] OTHER     -> 150000]
\* the same file without a row for NYY
PartialTable == [t \in ReplayTeams |-> IF t = "NYY" THEN NoRating ELSE FullTable[t]]
EmptyTable == [t \in ReplayTeams |-> NoRating]

Engines == {"run_model", "compute_elo", "backtest_season", "elo_compute"}

\* compute_elo starts from defaultdict(lambda: ELO_INIT); the others read a file
StartTables(eng) ==
    IF eng = "compute_elo" THEN {EmptyTable} ELSE {FullTable, PartialTable}

\* fade_games = 0 is "no preseason influence"; with 1 the fade ends within the run
FadeChoices(eng) == IF eng = "backtest_season" THEN {0, 1, 2} ELSE {0}

-----------------------------------------------------------------------------
(* Loading the schedule *)

RECURSIVE InsertByDate(_, _)
\* g goes after every row whose date is <= its own: a stable sort
InsertByDate(g, s) ==
    IF s = <<>> THEN <<g>>
    ELSE IF Head(s).date <= g.date THEN <<Head(s)>> \o InsertByDate(g, Tail(s))
    ELSE <<g>> \o s

RECURSIVE SortByDate(_)
SortByDate(s) ==
    IF s = <<>> THEN <<>>
    ELSE InsertByDate(s[Len(s)], SortByDate(SubSeq(s, 1, Len(s) - 1)))

\* the mutant: rows kept in file order
RowsAsRead(rows) == rows

\* load_schedule: games.sort(key=lambda g: g['date'])
LoadSchedule(rows) == SortByDate(rows)

\* mlb-elo-compute: schedule_df[date == yesterday].dropna(scores), file order
YesterdaysGames(rows) == SelectSeq(rows, LAMBDA g : g.date = Yesterday)

LoadGames(eng, rows) ==
    IF eng = "elo_compute" THEN YesterdaysGames(rows) ELSE LoadSchedule(rows)

-----------------------------------------------------------------------------
(* One game of each replay loop, as a function of the loop's state
   st = [elos |-> team -> rating, gp |-> team -> games played] *)

Known(tbl, t) == tbl[t] # NoRating

\* elos.get(team, ELO_INIT) / team_elo[team] of a defaultdict
RatingOrInit(tbl, t) == IF Known(tbl, t) THEN tbl[t] ELSE ELO_INIT * Cents

\* update_elo of enhanced_model.py: elo + k * mov_mult * (actual - expected)
UpdateElo(elo, expected, actual, k, mov_mult) == elo + EloShift(k, mov_mult, actual, expected)

\* the mutant of AwayRating: the shift added on both sides
AwayRatingSameSign(elo_away, elo_shift) == elo_away + elo_shift

\* team_elo[away] = elo_away - elo_shift
AwayRating(elo_away, elo_shift) == elo_away - elo_shift

\* a game the loop skips (continue) because a side has no rating
Skipped(eng, st, g) ==
    /\ eng \in {"elo_compute", "backtest_season"}
    /\ ~Known(st.elos, g.home) \/ ~Known(st.elos, g.away)

\* run_model: the prediction of a game (base configuration: no adjustment enabled)
RunModelPrediction(st, g) ==
    LET home_elo == RatingOrInit(st.elos, g.home)
        away_elo == RatingOrInit(st.elos, g.away)
    IN  ApplyShrinkage(PROB_SHRINKAGE, ExpectedScore(home_elo, away_elo, ELO_HFA))

\* run_model: the rating update of a game
RunModelUpdate(st, g) ==
    LET home_elo == RatingOrInit(st.elos, g.home)
        away_elo == RatingOrInit(st.elos, g.away)
        home_won == IF g.home_score > g.away_score THEN 1 ELSE 0
        score_diff == g.home_score - g.away_score
        mov == IF score_diff # 0
               THEN MarginOfVictoryMult(score_diff, home_elo - away_elo)
               ELSE MovScale
        exp_home == ExpectedScore(home_elo, away_elo, ELO_HFA)
    IN  [st EXCEPT !.elos =
            [st.elos EXCEPT
                ![g.home] = UpdateElo(home_elo, exp_home, home_won * ProbScale, ELO_K, mov),
                ![g.away] = UpdateElo(away_elo, ProbScale - exp_home,
                                      (1 - home_won) * ProbScale, ELO_K, mov)]]

\* compute_elo of recompute_elo.py
ComputeEloUpdate(st, g) ==
    LET elo_home == RatingOrInit(st.elos, g.home)
        elo_away == RatingOrInit(st.elos, g.away)
        prob_home == ExpectedScore(elo_home, elo_away, ELO_HFA)
        result_home == IF g.home_score > g.away_score THEN ProbScale
                       ELSE IF g.home_score < g.away_score THEN 0
                       ELSE ProbScale \div 2
        score_diff == Abs(g.home_score - g.away_score)
        mov == IF score_diff = 0 THEN MovScale
               ELSE MarginOfVictoryMult(score_diff, elo_home - elo_away)
        elo_shift == EloShift(ELO_K, mov, result_home, prob_home)
    IN  [st EXCEPT !.elos =
            [st.elos EXCEPT ![g.home] = elo_home + elo_shift,
                            ![g.away] = AwayRating(elo_away, elo_shift)]]

\* the MOV_CAP values of a deployment: one that clips a three-run margin, one that does not
MovCapChoices(eng) == IF eng = "elo_compute" THEN {800, 2500} ELSE {0}

\* margin_of_victory_mult of mlb_common.elo: min(raw, MOV_CAP)
CappedMov(score_diff, elo_diff, cap) == Min(MarginOfVictoryMult(score_diff, elo_diff), cap)

\* the mutant of EloComputeUpdate: the home side's expected score is taken
\* against the best rating of the table
EloComputeUpdateAgainstLeader(st, g, cap) ==
    LET elo_home == st.elos[g.home]
        elo_away == st.elos[g.away]
        leader == CHOOSE x \in { st.elos[t] : t \in DOMAIN st.elos } :
                      \A t \in DOMAIN st.elos : st.elos[t] <= x
        prob_home == ExpectedScore(elo_home, leader, ELO_HFA)
        result_home == IF g.home_score > g.away_score THEN 1 ELSE 0
        score_diff == Abs(g.home_score - g.away_score)
        mov == CappedMov(score_diff, elo_home - elo_away, cap)
        elo_shift == EloShift(ELO_K, mov, result_home * ProbScale, prob_home)
    IN  [st EXCEPT !.elos =
            [st.elos EXCEPT ![g.home] = elo_home + elo_shift,
                            ![g.away] = AwayRating(elo_away, elo_shift)]]

\* the loop body of mlb-elo-compute for a game both of whose teams are rated
EloComputeUpdate(st, g, cap) ==
    LET elo_home == st.elos[g.home]
        elo_away == st.elos[g.away]
        prob_home == ExpectedScore(elo_home, elo_away, ELO_HFA)
        result_home == IF g.home_score > g.away_score THEN 1 ELSE 0
        score_diff == Abs(g.home_score - g.away_score)
        mov == CappedMov(score_diff, elo_home - elo_away, cap)
        elo_shift == EloShift(ELO_K, mov, result_home * ProbScale, prob_home)
    IN  [st EXCEPT !.elos =
            [st.elos EXCEPT ![g.home] = elo_home + elo_shift,
                            ![g.away] = AwayRating(elo_away, elo_shift)]]

\* backtest_season: pct * raw + (1 - pct) * preseason with
\* pct = min(((gp_home + gp_away) / 2) / fade_games, 1), rounded to hundredths
RegressedElo(raw, pre, gp_home, gp_away, fade) ==
    IF fade > 0
    THEN LET n == Min(gp_home + gp_away, 2 * fade)
         IN  RoundDiv(n * raw + (2 * fade - n) * pre, 2 * fade)
    ELSE raw

\* backtest_season: p_home of a game both of whose teams are rated
BacktestPrediction(st, g, pre, fade) ==
    LET gp_home == st.gp[g.home]
        gp_away == st.gp[g.away]
        reg_home == RegressedElo(st.elos[g.home], pre[g.home], gp_home, gp_away, fade)
        reg_away == RegressedElo(st.elos[g.away], pre[g.away], gp_home, gp_away, fade)
    IN  ExpectedScore(reg_home, reg_away, ELO_HFA)

\* backtest_season: the raw-ELO update and the games-played counters
BacktestUpdate(st, g) ==
    LET raw_home == st.elos[g.home]
        raw_away == st.elos[g.away]
        actual_h == IF g.home_score > g.away_score THEN 1 ELSE 0
        exp_h == ExpectedScore(raw_home, raw_away, ELO_HFA)
        score_diff == Abs(g.home_score - g.away_score)
        elo_diff == raw_home + ELO_HFA * Cents - raw_away
        m == MarginOfVictoryMult(score_diff, elo_diff)
        shift == EloShift(BACKTEST_K, m, actual_h * ProbScale, exp_h)
    IN  [elos |-> [st.elos EXCEPT ![g.home] = raw_home + shift,
                                  ![g.away] = AwayRating(raw_away, shift)],
         gp   |-> [st.gp EXCEPT ![g.home] = @ + 1, ![g.away] = @ + 1]]

\* the loop state after the iteration for game g
StepState(eng, st, g, cap) ==
    IF Skipped(eng, st, g) THEN st
    ELSE CASE eng = "run_model"       -> RunModelUpdate(st, g)
           [] eng = "compute_elo"     -> ComputeEloUpdate(st, g)
           [] eng = "elo_compute"     -> EloComputeUpdate(st, g, cap)
           [] eng = "backtest_season" -> BacktestUpdate(st, g)

\* the home-win probability the iteration records (NA where the loop records none)
Prediction(eng, st, g, pre, fade) ==
    CASE eng = "run_model"       -> RunModelPrediction(st, g)
      [] eng = "backtest_season" -> BacktestPrediction(st, g, pre, fade)
      [] OTHER                   -> NA

-----------------------------------------------------------------------------
(* The replay as a state machine *)

ZeroPlayed == [t \in ReplayTeams |-> 0]

ReplayInit ==
    /\ engine \in Engines
    /\ raw_rows \in SeqsUpTo(ScheduleRows, MaxGames)
    /\ baseline \in StartTables(engine)
    /\ fade_games \in FadeChoices(engine)
    /\ mov_cap \in MovCapChoices(engine)
    /\ games = <<>>
    /\ rpc = "load"
    /\ gi = 1
    /\ elos = baseline
    /\ games_played = ZeroPlayed
    /\ results = <<>>

\* reading the schedule: filter / sort, before the loop starts
Load ==
    /\ rpc = "load"
    /\ games' = LoadGames(engine, raw_rows)
    /\ rpc' = "loop"
    /\ UNCHANGED <<engine, raw_rows, gi, elos, baseline, games_played,
                   fade_games, mov_cap, results>>
    /\ UNCHANGED nonReplayVars

\* one iteration of the loop: the prediction is taken from the ratings as
\* they stand, appended to the record, and only then are the ratings updated
ProcessGame ==
    /\ rpc = "loop"
    /\ gi <= Len(games)
    /\ LET g  == games[gi]
           st == [elos |-> elos, gp |-> games_played]
           nx == StepState(engine, st, g, mov_cap)
       IN  /\ elos' = nx.elos
           /\ games_played' = nx.gp
           /\ results' =
                IF Skipped(engine, st, g) THEN results
                ELSE Append(results,
                            [g |-> gi,
                             p |-> Prediction(engine, st, g, baseline, fade_games),
                             home_pre |-> RatingOrInit(st.elos, g.home),
                             away_pre |-> RatingOrInit(st.elos, g.away),
                             home_post |-> nx.elos[g.home], away_post |-> nx.elos[g.away]])
    /\ gi' = gi + 1
    /\ UNCHANGED <<engine, raw_rows, games, rpc, baseline, fade_games, mov_cap>>
    /\ UNCHANGED nonReplayVars

\* the loop is exhausted
Finish ==
    /\ rpc = "loop"
    /\ gi > Len(games)
    /\ rpc' = "done"
    /\ UNCHANGED <<engine, raw_rows, games, gi, elos, baseline, games_played,
                   fade_games, mov_cap, results>>
    /\ UNCHANGED nonReplayVars

Next == Load \/ ProcessGame \/ Finish


-----------------------------------------------------------------------------
(* C1: zero-sum rating update *)

\* the sum of all teams' ratings, a team without an entry counting as the
\* ELO_INIT the dictionary lookup would give it
TotalRating(tbl) == SumOver([t \in ReplayTeams |-> RatingOrInit(tbl, t)], ReplayTeams)

\* C1: for every processed game of every replay loop, the new home rating plus
\* the new away rating equals the old home rating plus the old away rating
\* (the home side moved by +shift, the away side by -shift), and so at every
\* point of the run the sum of all teams' ratings equals the sum the run
\* started with.
C1_ZeroSumUpdate ==
    /\ \A k \in 1..Len(results) :
          /\ results[k].home_post + results[k].away_post
                = results[k].home_pre + results[k].away_pre
          /\ results[k].home_post - results[k].home_pre
                = -(results[k].away_post - results[k].away_pre)
    /\ TotalRating(elos) = TotalRating(baseline)

\* a run of mlb-elo-compute that processed two games and moved ratings in both
C1_Witness ==
    /\ engine = "elo_compute"
    /\ rpc = "done"
    /\ Len(results) >= 2
    /\ \A k \in 1..Len(results) : results[k].home_post # results[k].home_pre

\* the same for run_model, with a level game and a team absent from the table
C1_WitnessRunModel ==
    /\ engine = "run_model"
    /\ rpc = "done"
    /\ Len(results) >= 2
    /\ \E k \in 1..Len(results) :
          /\ games[results[k].g].home_score = games[results[k].g].away_score
          /\ results[k].home_post # results[k].home_pre
    /\ \E t \in ReplayTeams : ~Known(baseline, t) /\ Known(elos, t)

-----------------------------------------------------------------------------
(* C7: no lookahead *)

RECURSIVE ReplayState(_, _, _, _, _)
\* the loop state produced by exactly the first n games of gs, from table base
ReplayState(eng, gs, n, base, cap) ==
    IF n = 0 THEN [elos |-> base, gp |-> ZeroPlayed]
    ELSE StepState(eng, ReplayState(eng, gs, n - 1, base, cap), gs[n], cap)

-----------------------------------------------------------------------------
(* Monte Carlo season simulation: inputs *)

\* SIM_COUNT, scaled down
NumSims == 2

SimIds == 1..NumSims

\* the fixtures of the schedule file, in file order; starter id 0 is "no
\* probable pitcher", id 3 a pitcher fip_dict has no entry for
SimFixtures ==
    << [home |-> "BAL", away |-> "BOS", home_sp |-> 1, away_sp |-> 2],
       [home |-> "NYY", away |-> "BAL", home_sp |-> 0, away_sp |-> 1],
       [home |-> "BOS", away |-> "NYY", home_sp |-> 3, away_sp |-> 0],
       [home |-> "TOR", away |-> "BAL", home_sp |-> 2, away_sp |-> 0] >>

\* <<homeScore, awayScore>>; <<NA, NA>> is a row whose scores are empty (NaN)
ScoreChoices == { <<3, 1>>, <<0, 2>>, <<2, 2>>, <<NA, NA>> }

Schedules ==
    { [i \in 1..Len(SimFixtures) |->
          [home |-> SimFixtures[i].home, away |-> SimFixtures[i].away,
           home_sp |-> SimFixtures[i].home_sp, away_sp |-> SimFixtures[i].away_sp,
           home_score |-> sc[i][1], away_score |-> sc[i][2]]] :
        sc \in [1..Len(SimFixtures) -> ScoreChoices] }

\* fip_dict: pitcher id -> FIP in hundredths; lg_fip likewise
FipDict == [id \in {1, 2} |-> IF id = 1 THEN 320 ELSE 480]
LgFip == 400

SimImpls == {"simulate_season", "compute_snapshot"}

\* the values np.random.rand() yields, in 1/10000: one below every p_home_win,
\* one equal to the p_home_win of the fourth fixture without FIP data
DrawValues == {2000, 5341}

-----------------------------------------------------------------------------
(* Monte Carlo season simulation: the functions *)

\* dropna(subset=['homeScore', 'awayScore'])
IsCompleted(row) == row.home_score # NA /\ row.away_score # NA

\* homeScore.isna() | awayScore.isna()
IsRemaining(row) == row.home_score = NA \/ row.away_score = NA

RECURSIVE RemainingIdx(_, _)
\* the indices of the remaining rows from index i on, in file order
RemainingIdx(rows, i) ==
    IF i > Len(rows) THEN <<>>
    ELSE (IF IsRemaining(rows[i]) THEN <<i>> ELSE <<>>) \o RemainingIdx(rows, i + 1)

\* the team a completed row is credited to:
\* if homeScore > awayScore: home, else: away
CreditedTeam(row) == IF row.home_score > row.away_score THEN row.home ELSE row.away

\* actual_wins after the seeding loop
SeedWins(rows) ==
    [t \in ReplayTeams |->
        Cardinality({ i \in 1..Len(rows) : IsCompleted(rows[i]) /\ CreditedTeam(rows[i]) = t })]

\* the mutant of PitcherFip: an absent pitcher is given a FIP of 0
PitcherFipZeroDefault(id) == IF id # 0 /\ id \in DOMAIN FipDict THEN FipDict[id] ELSE 0

\* fip_adjustment: (lg_fip - fip) * FIP_WEIGHT per side, lg_fip for an absent pitcher
PitcherFip(id) == IF id # 0 /\ id \in DOMAIN FipDict THEN FipDict[id] ELSE LgFip

FipAdjustment(home_pitcher_id, away_pitcher_id) ==
    << (LgFip - PitcherFip(home_pitcher_id)) * FIP_WEIGHT,
       (LgFip - PitcherFip(away_pitcher_id)) * FIP_WEIGHT >>

\* enhanced_probability
EnhancedProbability(elo_home, elo_away, home_pitcher_id, away_pitcher_id, fip) ==
    LET adj == IF fip THEN FipAdjustment(home_pitcher_id, away_pitcher_id) ELSE <<0, 0>>
    IN  ApplyShrinkage(PROB_SHRINKAGE,
                       ExpectedScore(elo_home + adj[1], elo_away + adj[2], ELO_HFA))

\* p_home_win of a fixture both of whose teams are rated
FixtureProbability(impl, tbl, row, fip) ==
    IF impl = "simulate_season"
    THEN EnhancedProbability(tbl[row.home], tbl[row.away], row.home_sp, row.away_sp, fip)
    ELSE ExpectedScore(tbl[row.home], tbl[row.away], ELO_HFA)

\* home_wins = draws < p_home_win
HomeWins(draw, p_home_win) == draw < p_home_win

\* the mutant of RatingsAfterFixture: the first trial's result moves the ratings
RatingsAfterSimulatedResult(tbl, row, home_wins) ==
    RunModelUpdate([elos |-> tbl, gp |-> ZeroPlayed],
                   [row EXCEPT !.home_score = IF home_wins[1] THEN 1 ELSE 0,
                               !.away_score = IF home_wins[1] THEN 0 ELSE 1]).elos

\* the loop body assigns nothing to elo_ratings
RatingsAfterFixture(tbl, row, home_wins) == tbl

-----------------------------------------------------------------------------
(* Monte Carlo season simulation as a state machine *)

SimInit ==
    /\ sim_impl \in SimImpls
    /\ schedule \in Schedules
    /\ elo_ratings \in {FullTable, PartialTable}
    /\ elo_given = elo_ratings
    /\ fip_on \in (IF sim_impl = "simulate_season" THEN BOOLEAN ELSE {FALSE})
    /\ sim_pc = "seed"
    /\ fi = 1
    /\ actual_wins = ZeroPlayed
    /\ sim_matrix = [s \in SimIds |-> ZeroPlayed]
    /\ sim_log = <<>>

\* the seeding loop and sim_matrix[:, idx] = actual_wins[team]
SeedActualWins ==
    /\ sim_pc = "seed"
    /\ actual_wins' = SeedWins(schedule)
    /\ sim_matrix' = [s \in SimIds |-> SeedWins(schedule)]
    /\ sim_pc' = "simulate"
    /\ UNCHANGED <<sim_impl, schedule, elo_ratings, elo_given, fip_on, fi, sim_log>>
    /\ UNCHANGED nonSimVars

\* one iteration of the loop over the remaining rows, all trials at once
SimulateFixture ==
    /\ sim_pc = "simulate"
    /\ fi <= Len(RemainingIdx(schedule, 1))
    /\ LET idx == RemainingIdx(schedule, 1)[fi]
           row == schedule[idx]
       IN  IF ~Known(elo_ratings, row.home) \/ ~Known(elo_ratings, row.away)
           THEN \* continue
                UNCHANGED <<sim_matrix, sim_log, elo_ratings>>
           ELSE \E draws \in [SimIds -> DrawValues] :
                  LET p_home_win == FixtureProbability(sim_impl, elo_ratings, row, fip_on)
                      home_wins == [s \in SimIds |-> HomeWins(draws[s], p_home_win)]
                  IN  /\ sim_matrix' =
                            [s \in SimIds |->
                                [sim_matrix[s] EXCEPT
                                    ![row.home] = @ + (IF home_wins[s] THEN 1 ELSE 0),
                                    ![row.away] = @ + (IF ~home_wins[s] THEN 1 ELSE 0)]]
                      /\ sim_log' = Append(sim_log,
                                           [row |-> idx, p |-> p_home_win,
                                            draws |-> draws, home_wins |-> home_wins])
                      /\ elo_ratings' = RatingsAfterFixture(elo_ratings, row, home_wins)
    /\ fi' = fi + 1
    /\ UNCHANGED <<sim_impl, schedule, elo_given, fip_on, sim_pc, actual_wins>>
    /\ UNCHANGED nonSimVars

\* the loop over the remaining rows is exhausted
SimFinish ==
    /\ sim_pc = "simulate"
    /\ fi > Len(RemainingIdx(schedule, 1))
    /\ sim_pc' = "done"
    /\ UNCHANGED <<sim_impl, schedule, elo_ratings, elo_given, fip_on, fi,
                   actual_wins, sim_matrix, sim_log>>
    /\ UNCHANGED nonSimVars

NextSim == SeedActualWins \/ SimulateFixture \/ SimFinish


-----------------------------------------------------------------------------
(* C3: simulation conservation *)

Involves(row, t) == row.home = t \/ row.away = t

\* the number of schedule rows, completed or remaining, that involve team t
GamesInvolving(t) ==
    Cardinality({ i \in 1..Len(schedule) : Involves(schedule[i], t) })

\* completed games of t that the seeding credited to the opponent
CompletedToOpponent(t) ==
    Cardinality({ i \in 1..Len(schedule) :
                    /\ IsCompleted(schedule[i])
                    /\ Involves(schedule[i], t)
                    /\ CreditedTeam(schedule[i]) # t })

\* the team a simulated fixture was credited to in trial s
SimulatedWinner(e, s) ==
    IF e.home_wins[s] THEN schedule[e.row].home ELSE schedule[e.row].away

\* simulated fixtures of t that trial s credited to the opponent
SimulatedToOpponent(s, t) ==
    Cardinality({ k \in 1..Len(sim_log) :
                    Involves(schedule[sim_log[k].row], t) /\ SimulatedWinner(sim_log[k], s) # t })

\* simulated fixtures that trial s credited to t
SimulatedWins(s, t) ==
    Cardinality({ k \in 1..Len(sim_log) :
                    Involves(schedule[sim_log[k].row], t) /\ SimulatedWinner(sim_log[k], s) = t })

\* C3: when the simulation has finished, in every trial and for every team of
\* the schedule, the team's win total plus the number of its games credited to
\* the opponent equals the number of schedule rows that involve the team,
\* whatever the schedule and whatever set of ratings is available.
C3_Conservation ==
    sim_pc = "done" =>
        \A s \in SimIds : \A t \in ReplayTeams :
            sim_matrix[s][t] + CompletedToOpponent(t) + SimulatedToOpponent(s, t)
                = GamesInvolving(t)

\* every team of the schedule has a rating
AllRated == \A i \in 1..Len(schedule) :
                Known(elo_given, schedule[i].home) /\ Known(elo_given, schedule[i].away)

\* the same conservation, for the runs in which every team of the schedule is rated
C3_ConservationWhenAllRated == AllRated => C3_Conservation

\* a finished simulation that dropped a remaining fixture of an unrated team
C3_SkippedFixture ==
    /\ sim_pc = "done"
    /\ Len(sim_log) < Len(RemainingIdx(schedule, 1))

-----------------------------------------------------------------------------
(* C8: ratings are frozen during simulation *)

\* C8: simulating the remaining fixtures never changes a rating, and the
\* home-win probability used for a fixture is the one computed from the
\* ratings given at simulation start and that fixture's starters alone: the
\* same value whatever the other fixtures' outcomes and wherever the fixture
\* stands in the loop.
C8_RatingsFrozen ==
    sim_pc # "idle" =>
        /\ elo_ratings = elo_given
        /\ \A k \in 1..Len(sim_log) :
              sim_log[k].p = FixtureProbability(sim_impl, elo_given,
                                                schedule[sim_log[k].row], fip_on)

\* a finished simulation of at least three fixtures in which the two trials
\* disagree about the first fixture, so that a rating update would have shown
C8_Witness ==
    /\ sim_pc = "done"
    /\ Len(sim_log) >= 3
    /\ sim_log[1].home_wins[1] # sim_log[1].home_wins[2]
    /\ sim_log[2].home_wins[1]

-----------------------------------------------------------------------------
(* C9: trial win totals *)

\* the completed games team t won: it outscored its opponent
WinsInCompleted(t) ==
    Cardinality({ i \in 1..Len(schedule) :
        /\ IsCompleted(schedule[i])
        /\ \/ schedule[i].home = t /\ schedule[i].home_score > schedule[i].away_score
           \/ schedule[i].away = t /\ schedule[i].away_score > schedule[i].home_score })

\* C9: once seeded, every trial's counter for a team started at the number of
\* completed games the team won (one value for all trials); the cell for
\* (trial, team) equals that number plus the simulated fixtures the team won in
\* that trial; and each simulated fixture credits, in each trial, exactly one
\* side: the home side exactly when the trial's draw is below p_home_win.
C9_TrialWinTotals ==
    sim_pc \in {"simulate", "done"} =>
        /\ \A t \in ReplayTeams : actual_wins[t] = WinsInCompleted(t)
        /\ \A s \in SimIds : \A t \in ReplayTeams :
              sim_matrix[s][t] = WinsInCompleted(t) + SimulatedWins(s, t)
        /\ \A k \in 1..Len(sim_log) : \A s \in SimIds :
              sim_log[k].home_wins[s] <=> (sim_log[k].draws[s] < sim_log[k].p)

\* no completed row has level scores
NoLevelRow == \A i \in 1..Len(schedule) :
                 IsCompleted(schedule[i]) => schedule[i].home_score # schedule[i].away_score

\* the same, for the schedules whose completed rows all have a winner
C9_TrialWinTotalsDecisive == NoLevelRow => C9_TrialWinTotals

\* a seeded simulation whose schedule holds a completed row with level scores
C9_LevelRowSeeded ==
    /\ sim_pc = "done"
    /\ ~NoLevelRow
    /\ Len(sim_log) >= 1

-----------------------------------------------------------------------------
(* Playoff odds: inputs *)

\* the teams of the schedule, sorted: seven AL teams over three divisions, one NL team
AllOddsTeams == << "ATL", "BAL", "BOS", "CLE", "DET", "HOU", "NYY", "SEA" >>

\* `teams` as the caller builds it: every team, or a schedule without NYY
\* (six AL teams), or without NYY and DET (five AL teams)
TeamLists ==
    { AllOddsTeams,
      SelectSeq(AllOddsTeams, LAMBDA t : t # "NYY"),
      SelectSeq(AllOddsTeams, LAMBDA t : t \notin {"NYY", "DET"}) }

\* the lists an implementation is called with: backtest-fade-curves passes
\* every rated team, the lambda the teams of the schedule it read
CallerTeams(impl) ==
    IF impl = "compute_al_playoff_odds" THEN {AllOddsTeams} ELSE TeamLists

\* TEAM_LEAGUE
TeamLeague(t) == IF t = "ATL" THEN "NL" ELSE "AL"

\* TEAM_DIVISION
TeamDivision(t) ==
    CASE t \in {"BAL", "BOS", "NYY"} -> "AL East"
      [] t \in {"CLE", "DET"}        -> "AL Central"
      [] t \in {"HOU", "SEA"}        -> "AL West"
      [] OTHER                       -> "NL East"

\* remaining[:3]
WILDCARDS == 3

\* the win totals a cell of the simulation matrix holds
WinTotals == {0, 1}

OddsImpls == {"compute_playoff_odds", "compute_al_playoff_odds"}

\* the auxiliary np.random.rand() keys of compute_al_playoff_odds, as ranks
\* below KeyBase: ascending and descending along the team list; max() and
\* sort() each draw their own
KeyBase == 10
RandomKeys ==
    { [t \in {AllOddsTeams[i] : i \in 1..Len(AllOddsTeams)} |->
          CHOOSE i \in 1..Len(AllOddsTeams) : AllOddsTeams[i] = t],
      [t \in {AllOddsTeams[i] : i \in 1..Len(AllOddsTeams)} |->
          KeyBase - (CHOOSE i \in 1..Len(AllOddsTeams) : AllOddsTeams[i] = t)] }

-----------------------------------------------------------------------------
(* Playoff odds: the functions *)

Range(seq) == { seq[i] : i \in 1..Len(seq) }

\* al_teams = [t for t in teams if TEAM_LEAGUE.get(t) == 'AL']
AlTeams(teams) == SelectSeq(teams, LAMBDA t : TeamLeague(t) = "AL")

\* the keys of al_divisions
AlDivisions(al) == { TeamDivision(t) : t \in Range(al) }

\* al_divisions[div], in al_teams order
DivTeams(al, div) == SelectSeq(al, LAMBDA t : TeamDivision(t) = div)

RECURSIVE PyMax(_, _)
\* Python's max(seq, key=...): the first element whose key is maximal
PyMax(seq, key) ==
    IF Len(seq) = 1 THEN seq[1]
    ELSE LET m == PyMax(SubSeq(seq, 1, Len(seq) - 1), key)
             last == seq[Len(seq)]
         IN  IF key[last] > key[m] THEN last ELSE m

RECURSIVE InsertDesc(_, _, _)
\* x goes after every element whose key is >= its own
InsertDesc(x, s, key) ==
    IF s = <<>> THEN <<x>>
    ELSE IF key[Head(s)] >= key[x] THEN <<Head(s)>> \o InsertDesc(x, Tail(s), key)
    ELSE <<x>> \o s

RECURSIVE SortDesc(_, _)
\* list.sort(key=..., reverse=True): descending, equal keys keep their order
SortDesc(s, key) ==
    IF s = <<>> THEN <<>>
    ELSE InsertDesc(s[Len(s)], SortDesc(SubSeq(s, 1, Len(s) - 1), key), key)

\* the sort key of a team: its wins, or (wins, rand) in compute_al_playoff_odds
OddsKey(impl, wins, rand) ==
    IF impl = "compute_al_playoff_odds"
    THEN [t \in DOMAIN wins |-> wins[t] * KeyBase + rand[t]]
    ELSE wins

\* div_winners of one trial
DivWinners(al, key) == { PyMax(DivTeams(al, div), key) : div \in AlDivisions(al) }

\* the mutant of WildcardPool: division winners stay in the pool
WildcardPoolAll(al, winners) == al

\* remaining = [t for t in al_teams if t not in div_winners]
WildcardPool(al, winners) == SelectSeq(al, LAMBDA t : t \notin winners)

\* the mutant of RankedPool: the pool left in list order
PoolUnsorted(pool, key) == pool

\* remaining.sort(key=..., reverse=True)
RankedPool(pool, key) == SortDesc(pool, key)

\* wc_teams = {t for t, _ in remaining[:3]}
WcTeams(al, winners, key) ==
    LET ranked == RankedPool(WildcardPool(al, winners), key)
    IN  { ranked[i] : i \in 1..Min(WILDCARDS, Len(ranked)) }

Bump(count, S) == [t \in DOMAIN count |-> IF t \in S THEN count[t] + 1 ELSE count[t]]

ZeroCount == [t \in Range(AllOddsTeams) |-> 0]

-----------------------------------------------------------------------------
(* Playoff odds as a state machine: one action per trial of the loop *)

OddsInit ==
    /\ odds_impl \in OddsImpls
    /\ odds_teams \in CallerTeams(odds_impl)
    /\ odds_pc = "trials"
    /\ sim_idx = 0
    /\ al_wins = ZeroCount
    /\ div_winners = {}
    /\ wc_teams = {}
    /\ playoff_count = ZeroCount
    /\ division_count = ZeroCount
    /\ wildcard_count = ZeroCount

\* the body of `for sim_idx in range(n_sims)` on one row of the matrix
OddsTrial ==
    /\ odds_pc = "trials"
    /\ sim_idx < NumSims
    /\ LET al == AlTeams(odds_teams)
       IN  \E row \in [Range(al) -> WinTotals] :
           \E rmax, rsort \in (IF odds_impl = "compute_al_playoff_odds"
                               THEN RandomKeys ELSE {ZeroCount}) :
             \* each value of the trial is bound once it is computed
             \E wins \in {[t \in Range(AllOddsTeams) |-> IF t \in Range(al) THEN row[t] ELSE 0]} :
             \E kmax \in {OddsKey(odds_impl, wins, rmax)} :
             \E ksort \in {OddsKey(odds_impl, wins, rsort)} :
             \E winners \in {DivWinners(al, kmax)} :
             \E wcs \in {WcTeams(al, winners, ksort)} :
                 /\ al_wins' = wins
                 /\ div_winners' = winners
                 /\ wc_teams' = wcs
                 /\ playoff_count' = Bump(playoff_count, winners \cup wcs)
                 /\ IF odds_impl = "compute_playoff_odds"
                    THEN /\ division_count' = Bump(division_count, winners)
                         /\ wildcard_count' = Bump(wildcard_count, wcs)
                    ELSE UNCHANGED <<division_count, wildcard_count>>
    /\ sim_idx' = sim_idx + 1
    /\ UNCHANGED <<odds_impl, odds_teams, odds_pc>>
    /\ UNCHANGED nonOddsVars

\* the loop over the trials is exhausted: the percentages are built
OddsFinish ==
    /\ odds_pc = "trials"
    /\ sim_idx = NumSims
    /\ odds_pc' = "done"
    /\ UNCHANGED <<odds_impl, odds_teams, sim_idx, al_wins, div_winners, wc_teams,
                   playoff_count, division_count, wildcard_count>>
    /\ UNCHANGED nonOddsVars

NextOdds == OddsTrial \/ OddsFinish

-----------------------------------------------------------------------------
(* C2: the playoff field of a trial *)

\* the AL teams outside the playoff field of the trial processed last
NonQualifiers == Range(AlTeams(odds_teams)) \ (div_winners \cup wc_teams)

\* C2: in every trial of a league with D divisions and at least D + W teams
\* (W = 3), there is exactly one division winner per division, there are
\* exactly W wildcard teams, no team is both, and the field has exactly D + W
\* distinct teams of the league; and in compute_playoff_odds / compute_snapshot,
\* which keep the three counters, playoff_count[t] = division_count[t] +
\* wildcard_count[t] for every team after every trial, the last included.
C2_PlayoffField ==
    (odds_pc # "idle" /\ sim_idx >= 1) =>
        LET al == AlTeams(odds_teams)
            D  == Cardinality(AlDivisions(al))
        IN  /\ Len(al) >= D + WILDCARDS =>
                /\ \A div \in AlDivisions(al) :
                      Cardinality({ t \in div_winners : TeamDivision(t) = div }) = 1
                /\ Cardinality(div_winners) = D
                /\ Cardinality(wc_teams) = WILDCARDS
                /\ div_winners \cap wc_teams = {}
                /\ Cardinality(div_winners \cup wc_teams) = D + WILDCARDS
                /\ (div_winners \cup wc_teams) \subseteq Range(al)
            /\ odds_impl = "compute_playoff_odds" =>
                \A t \in Range(AllOddsTeams) :
                    playoff_count[t] = division_count[t] + wildcard_count[t]

\* compute_playoff_odds has finished on seven AL teams in three divisions,
\* and some team won its division in one trial and took a wildcard in the other
C2_Witness ==
    /\ odds_impl = "compute_playoff_odds"
    /\ odds_pc = "done"
    /\ Len(AlTeams(odds_teams)) = 7
    /\ Cardinality(AlDivisions(AlTeams(odds_teams))) = 3
    /\ \E t \in Range(AllOddsTeams) :
          division_count[t] = 1 /\ wildcard_count[t] = 1 /\ playoff_count[t] = 2

-----------------------------------------------------------------------------
(* C10: who qualifies *)

\* C10: in every trial, every division has a winner whose win total is at
\* least that of every other team of its division, and every wildcard team
\* is an AL team that won no division and whose win total is at least that of
\* every AL team that is neither a division winner nor a wildcard.
C10_QualifierSelection ==
    (odds_pc # "idle" /\ sim_idx >= 1) =>
        LET al == AlTeams(odds_teams)
        IN  /\ \A div \in AlDivisions(al) :
                  \E w \in div_winners :
                      /\ TeamDivision(w) = div
                      /\ \A t \in Range(DivTeams(al, div)) : al_wins[w] >= al_wins[t]
            /\ \A w \in div_winners :
                  \A t \in Range(DivTeams(al, TeamDivision(w))) : al_wins[w] >= al_wins[t]
            /\ \A c \in wc_teams :
                  /\ c \in Range(al)
                  /\ c \notin div_winners
                  /\ \A t \in NonQualifiers : al_wins[c] >= al_wins[t]

\* the position of a team in the list of teams
IndexOf(seq, t) == CHOOSE i \in 1..Len(seq) : seq[i] = t

\* a trial of compute_al_playoff_odds with seven AL teams in which the random
\* key decided the last wildcard place: the team left out has as many wins
\* as a wildcard team that is listed after it
C10_Witness ==
    /\ odds_impl = "compute_al_playoff_odds"
    /\ sim_idx >= 1
    /\ Len(AlTeams(odds_teams)) = 7
    /\ \E t \in NonQualifiers :
          \E c \in wc_teams :
              /\ al_wins[c] = al_wins[t]
              /\ al_wins[t] = 1
              /\ IndexOf(odds_teams, t) < IndexOf(odds_teams, c)

-----------------------------------------------------------------------------
(* Preseason blending: inputs *)

\* FADE_GAMES of backtest-fade-curves.py and of the projections lambda
FADE_GAMES == 100

\* fade weights are held in 1/1000
PctScale == 1000

Curves == {"linear", "cosine", "sigmoid", "quadratic"}

FadeImpls == {"regress_elo", "regress_elo_to_preseason", "backtest_season"}

\* the two teams of the blend; in backtest_season the home and the away team
FadeTeams == {"BAL", "BOS"}
FadeOrder == << "BAL", "BOS" >>

NoBlend == [t \in FadeTeams |-> NoRating]

\* only regress_elo takes a curve
CurvesOf(impl) == IF impl = "regress_elo" THEN Curves ELSE {"linear"}

\* backtest_season is swept over fade_values; the other two use FADE_GAMES
FadeGamesOf(impl) == IF impl = "backtest_season" THEN {0, 40, FADE_GAMES} ELSE {FADE_GAMES}

\* in-season ratings, in hundredths
CurrentTables ==
    { [t \in FadeTeams |-> IF t = "BAL" THEN 152000 ELSE 150000],
      [t \in FadeTeams |-> IF t = "BAL" THEN 148812 ELSE 151234] }

\* preseason ratings; outside backtest_season a team may have no entry
PreseasonTables(impl) ==
    { [t \in FadeTeams |-> IF t = "BAL" THEN 150000 ELSE 153000] }
    \cup (IF impl = "backtest_season" THEN {}
          ELSE { [t \in FadeTeams |-> IF t = "BAL" THEN 150000 ELSE NoRating] })

\* games played by a team when the blend is taken
GpChoices == {0, 1, 50, 99, 100, 101, 162}

\* backtest_season starts raw_elo from preseason_elo, so a rating that left
\* its preseason value belongs to a team that has played
GpChoicesOf(impl) == IF impl = "backtest_season" THEN GpChoices \ {0} ELSE GpChoices

-----------------------------------------------------------------------------
(* Preseason blending: the functions *)

\* math.cos(math.pi * t) for t = gp / FADE_GAMES, gp = 0..100, in 1/1000
CosTable ==
    <<  1000,  1000,   998,   996,   992,   988,   982,   976,   969,   960,
         951,   941,   930,   918,   905,   891,   876,   861,   844,   827,
         809,   790,   771,   750,   729,   707,   685,   661,   637,   613,
         588,   562,   536,   509,   482,   454,   426,   397,   368,   339,
         309,   279,   249,   218,   187,   156,   125,    94,    63,    31,
           0,   -31,   -63,   -94,  -125,  -156,  -187,  -218,  -249,  -279,
        -309,  -339,  -368,  -397,  -426,  -454,  -482,  -509,  -536,  -562,
        -588,  -613,  -637,  -661,  -685,  -707,  -729,  -750,  -771,  -790,
        -809,  -827,  -844,  -861,  -876,  -891,  -905,  -918,  -930,  -941,
        -951,  -960,  -969,  -976,  -982,  -988,  -992,  -996,  -998, -1000,
       -1000 >>

\* math.exp(-k * (t - 0.5)) with k = 10, for t = gp / FADE_GAMES, gp = 0..100, in 1/1000
ExpTable ==
    << 148413, 134290, 121510, 109947,  99484,  90017,  81451,  73700,  66686,  60340,
        54598,  49402,  44701,  40447,  36598,  33115,  29964,  27113,  24533,  22198,
        20086,  18174,  16445,  14880,  13464,  12182,  11023,   9974,   9025,   8166,
         7389,   6686,   6050,   5474,   4953,   4482,   4055,   3669,   3320,   3004,
         2718,   2460,   2226,   2014,   1822,   1649,   1492,   1350,   1221,   1105,
         1000,    905,    819,    741,    670,    607,    549,    497,    449,    407,
          368,    333,    301,    273,    247,    223,    202,    183,    165,    150,
          135,    122,    111,    100,     91,     82,     74,     67,     61,     55,
           50,     45,     41,     37,     33,     30,     27,     25,     22,     20,
           18,     17,     15,     14,     12,     11,     10,      9,      8,      7,
            7 >>

\* the value of a curve at t = gp / FADE_GAMES, in 1/1000
CurvePct(gp, c) ==
    CASE c = "linear"    -> (gp * PctScale) \div FADE_GAMES
      [] c = "cosine"    -> RoundDiv(PctScale - CosTable[gp + 1], 2)
      [] c = "sigmoid"   -> RoundDiv(PctScale * PctScale, PctScale + ExpTable[gp + 1])
      [] c = "quadratic" ->
            PctScale - RoundDiv((FADE_GAMES - gp) * (FADE_GAMES - gp) * PctScale,
                                FADE_GAMES * FADE_GAMES)

\* the mutant of FadePct: the curve evaluated at min(t, 1)
FadePctOfCappedT(gp, c) == CurvePct(Min(gp, FADE_GAMES), c)

\* fade_pct: 1.0 from FADE_GAMES games on, the curve below
FadePct(gp, c) == IF gp >= FADE_GAMES THEN PctScale ELSE CurvePct(gp, c)

\* regress_elo, one team: pct * cur + (1.0 - pct) * pre with
\* pre = preseason_elo.get(team, cur)
RegressElo(cur, pre, gp, c) ==
    LET w == FadePct(gp, c)
        p == IF pre = NoRating THEN cur ELSE pre
    IN  RoundDiv(w * cur + (PctScale - w) * p, PctScale)

\* regress_elo_to_preseason, one team: min(gp / FADE_GAMES, 1.0) as the
\* fraction n / FADE_GAMES, the blend rounded to hundredths
RegressEloToPreseason(elo, pre, gp) ==
    IF pre = NoRating THEN elo
    ELSE LET n == Min(gp, FADE_GAMES)
         IN  RoundDiv(n * elo + (FADE_GAMES - n) * pre, FADE_GAMES)

\* twice the games-played figure the weight of team t is computed from:
\* the team's own count, or in backtest_season gp_avg of the game's two teams
TwiceGamesPlayed(impl, gp, t) ==
    IF impl = "backtest_season" THEN gp["BAL"] + gp["BOS"] ELSE 2 * gp[t]

\* the weight `pct` applied to the current rating of team t, in 1/1000;
\* NA where the code computes none
WeightOf(impl, c, fade, pre, gp, t) ==
    CASE impl = "regress_elo" -> FadePct(gp[t], c)
      [] impl = "regress_elo_to_preseason" ->
            IF pre[t] = NoRating THEN NA
            ELSE (Min(gp[t], FADE_GAMES) * PctScale) \div FADE_GAMES
      [] OTHER ->
            IF fade > 0
            THEN RoundDiv(Min(gp["BAL"] + gp["BOS"], 2 * fade) * PctScale, 2 * fade)
            ELSE NA

-----------------------------------------------------------------------------
(* Preseason blending as a state machine *)

FadeInit ==
    /\ fade_impl \in FadeImpls
    /\ curve \in CurvesOf(fade_impl)
    /\ fade_n \in FadeGamesOf(fade_impl)
    /\ current_elo \in CurrentTables
    /\ preseason_elo \in PreseasonTables(fade_impl)
    /\ team_gp \in [FadeTeams -> GpChoicesOf(fade_impl)]
    /\ fade_queue = FadeOrder
    /\ regressed = NoBlend
    /\ pct = [t \in FadeTeams |-> NA]
    /\ fade_pc = "loop"

\* one iteration of `for team, cur in current_elo.items()`
RegressTeam ==
    /\ fade_pc = "loop"
    /\ fade_impl \in {"regress_elo", "regress_elo_to_preseason"}
    /\ fade_queue # <<>>
    /\ LET team == Head(fade_queue)
           gp == team_gp[team]
           r == IF fade_impl = "regress_elo"
                THEN RegressElo(current_elo[team], preseason_elo[team], gp, curve)
                ELSE RegressEloToPreseason(current_elo[team], preseason_elo[team], gp)
       IN  /\ regressed' = [regressed EXCEPT ![team] = r]
           /\ pct' = [pct EXCEPT ![team] =
                         WeightOf(fade_impl, curve, fade_n, preseason_elo, team_gp, team)]
    /\ fade_queue' = Tail(fade_queue)
    /\ UNCHANGED <<fade_impl, curve, fade_n, current_elo, preseason_elo, team_gp, fade_pc>>
    /\ UNCHANGED nonFadeVars

\* backtest_season: reg_home and reg_away of one game (BAL at home, BOS away)
BlendGame ==
    /\ fade_pc = "loop"
    /\ fade_impl = "backtest_season"
    /\ fade_queue # <<>>
    /\ regressed' = [t \in FadeTeams |->
                        RegressedElo(current_elo[t], preseason_elo[t],
                                     team_gp["BAL"], team_gp["BOS"], fade_n)]
    /\ pct' = [t \in FadeTeams |->
                  WeightOf(fade_impl, curve, fade_n, preseason_elo, team_gp, t)]
    /\ fade_queue' = <<>>
    /\ UNCHANGED <<fade_impl, curve, fade_n, current_elo, preseason_elo, team_gp, fade_pc>>
    /\ UNCHANGED nonFadeVars

\* every team is blended: the ratings go to the caller
FadeFinish ==
    /\ fade_pc = "loop"
    /\ fade_queue = <<>>
    /\ fade_pc' = "done"
    /\ UNCHANGED <<fade_impl, curve, fade_n, current_elo, preseason_elo, team_gp,
                   fade_queue, regressed, pct>>
    /\ UNCHANGED nonFadeVars

NextFade == RegressTeam \/ BlendGame \/ FadeFinish

-----------------------------------------------------------------------------
(* C4, C5: the boundaries of the fade *)

\* the teams the loop has blended so far
Blended == { t \in FadeTeams : regressed[t] # NoRating }

\* C4: in regress_elo (every curve: linear, cosine, sigmoid, quadratic) and
\* in regress_elo_to_preseason, with FADE_GAMES > 0, a team that has played
\* 0 games and has a preseason rating is blended with weight 0 on its current
\* rating, and its blended rating is exactly its preseason rating.
C4_FadeLowerBoundary ==
    \A t \in Blended :
        ( /\ fade_impl \in {"regress_elo", "regress_elo_to_preseason"}
          /\ fade_n > 0
          /\ team_gp[t] = 0
          /\ preseason_elo[t] # NoRating )
        => /\ pct[t] = 0
           /\ regressed[t] = preseason_elo[t]

\* the same boundary for the three curves whose value at t = 0 is 0
C4_LowerBoundaryExceptSigmoid ==
    curve # "sigmoid" => C4_FadeLowerBoundary

\* regress_elo on the sigmoid curve blended a team with 0 games played: the
\* weight is not 0 and the result is not the preseason rating
C4_SigmoidAtZeroGames ==
    /\ fade_impl = "regress_elo"
    /\ curve = "sigmoid"
    /\ \E t \in Blended :
          /\ team_gp[t] = 0
          /\ preseason_elo[t] # NoRating
          /\ pct[t] > 0
          /\ regressed[t] # preseason_elo[t]

C5_WitnessBacktest ==
    /\ fade_impl = "backtest_season"
    /\ fade_n = FADE_GAMES
    /\ team_gp["BAL"] = 101
    /\ team_gp["BOS"] = 99
    /\ regressed = current_elo

-----------------------------------------------------------------------------
(* Probability shrinkage: inputs and state machine *)

\* the number of probabilities one run shrinks
ShrinkGames == 3

ShrinkImpls == {"apply_shrinkage", "run_model"}

\* PROB_SHRINKAGE in 1/10000: mlb_common reads it from the environment,
\* enhanced_model.py sets 0.16 and sweeps 0.06 .. 0.16
ShrinkageChoices(impl) ==
    IF impl = "apply_shrinkage" THEN {0, PROB_SHRINKAGE, 4999}
    ELSE {600, PROB_SHRINKAGE}

\* raw probabilities, in 1/10000
RawProbChoices == {0, 1, 3333, 5000, 8765, ProbScale}

ShrinkInit ==
    /\ shrink_impl \in ShrinkImpls
    /\ shrinkage \in ShrinkageChoices(shrink_impl)
    /\ raw_probs \in [1..ShrinkGames -> RawProbChoices]
    /\ shrunk_log = <<>>
    /\ shrink_pc = "loop"

\* one raw probability is shrunk: a call of apply_shrinkage, or the
\* home_win_prob of one game of run_model
ShrinkOne ==
    /\ shrink_pc = "loop"
    /\ raw_probs # <<>>
    /\ shrunk_log' = Append(shrunk_log,
                            [raw |-> Head(raw_probs),
                             shrunk |-> ApplyShrinkage(shrinkage, Head(raw_probs))])
    /\ raw_probs' = Tail(raw_probs)
    /\ UNCHANGED <<shrink_impl, shrinkage, shrink_pc>>
    /\ UNCHANGED nonShrinkVars

ShrinkFinish ==
    /\ shrink_pc = "loop"
    /\ raw_probs = <<>>
    /\ shrink_pc' = "done"
    /\ UNCHANGED <<shrink_impl, shrinkage, raw_probs, shrunk_log>>
    /\ UNCHANGED nonShrinkVars

NextShrink == ShrinkOne \/ ShrinkFinish

-----------------------------------------------------------------------------
(* C6: the bounds of the shrinkage *)

\* C6: for every raw probability p in [0, 1] and every shrinkage s in
\* [0, 0.5), the shrunk probability s + (1 - 2s) * p lies in [s, 1 - s],
\* a larger raw probability never gives a smaller shrunk one, and the raw
\* probability 0.5 is shrunk to 0.5.
C6_ShrinkageBounds ==
    \A i \in 1..Len(shrunk_log) :
        LET e == shrunk_log[i]
        IN  /\ shrinkage <= e.shrunk
            /\ e.shrunk <= ProbScale - shrinkage
            /\ 2 * e.raw = ProbScale => 2 * e.shrunk = ProbScale
            /\ e.raw = 0 => e.shrunk = shrinkage
            /\ e.raw = ProbScale => e.shrunk = ProbScale - shrinkage
            /\ \A j \in 1..Len(shrunk_log) :
                  e.raw <= shrunk_log[j].raw => e.shrunk <= shrunk_log[j].shrunk

\* a run with PROB_SHRINKAGE = 0.16 has shrunk the raw probabilities 1, 0.5
\* and 0, in this order, to 0.84, 0.5 and 0.16
C6_Witness ==
    /\ shrink_pc = "done"
    /\ shrinkage = PROB_SHRINKAGE
    /\ shrunk_log = << [raw |-> ProbScale, shrunk |-> 8400],
                       [raw |-> 5000, shrunk |-> 5000],
                       [raw |-> 0, shrunk |-> PROB_SHRINKAGE] >>

-----------------------------------------------------------------------------
(* C11: ties and the order of the team list *)

\* the list back to front
Reverse(seq) == [i \in 1..Len(seq) |-> seq[Len(seq) + 1 - i]]

\* other orders in which a caller can hand over the same teams
Orderings(teams) == { teams, Reverse(teams) }

\* sorted(...) of a list of teams: AllOddsTeams is in alphabetical order
SortedTeams(teams) == SelectSeq(AllOddsTeams, LAMBDA t : t \in Range(teams))

\* the field compute_playoff_odds selects from the win totals of the trial
\* processed last when it is given the team list `teams`
FieldFor(teams) ==
    LET al == AlTeams(teams)
        winners == DivWinners(al, al_wins)
    IN  [div_winners |-> winners, wc_teams |-> WcTeams(al, winners, al_wins)]

\* C11: for the win totals of every trial, compute_playoff_odds selects the
\* same division winners and the same wildcards whatever the order of the
\* team list it is given, ties for a division's best total or for the last
\* wildcard place included.
C11_TieBreakOrderIndependent ==
    (odds_impl = "compute_playoff_odds" /\ sim_idx >= 1) =>
        \A o \in Orderings(odds_teams) :
            /\ FieldFor(o).div_winners = div_winners
            /\ FieldFor(o).wc_teams = wc_teams

\* compute_snapshot and compute_playoff_flags sort the teams themselves, so
\* the order they are handed does not reach the selection
C11_SortedListAgrees ==
    (odds_impl = "compute_playoff_odds" /\ sim_idx >= 1) =>
        \A o \in Orderings(odds_teams) :
            /\ FieldFor(SortedTeams(o)).div_winners = div_winners
            /\ FieldFor(SortedTeams(o)).wc_teams = wc_teams

\* a trial in which BAL and BOS tie for the best total of the AL East: the
\* list as given makes BAL the division winner, the reversed list another team
C11_TieDecidedByOrder ==
    /\ odds_impl = "compute_playoff_odds"
    /\ sim_idx >= 1
    /\ al_wins["BAL"] = 1
    /\ al_wins["BOS"] = 1
    /\ "BAL" \in div_winners
    /\ "BAL" \notin FieldFor(Reverse(odds_teams)).div_winners

-----------------------------------------------------------------------------
(* C12: a game of a team without a stored rating *)

\* the game the loop is about to process involves a team without a rating
NextGameHasUnknownTeam ==
    /\ rpc = "loop"
    /\ gi <= Len(games)
    /\ ~Known(elos, games[gi].home) \/ ~Known(elos, games[gi].away)

\* C12: in every replay loop, the iteration for a game one of whose teams has
\* no stored rating changes no team's rating and records no result for the
\* game: no default rating is substituted for the missing one.
C12_UnknownTeamRejected ==
    [][ (NextGameHasUnknownTeam /\ gi' = gi + 1)
            => (elos' = elos /\ results' = results) ]_vars

\* the same for the two loops that test `not in` before they read a rating
C12_SkippingLoopsReject ==
    [][ (NextGameHasUnknownTeam /\ gi' = gi + 1
            /\ engine \in {"elo_compute", "backtest_season"})
            => (elos' = elos /\ results' = results) ]_vars

\* run_model has processed a game of NYY, which its rating file did not
\* list: NYY was rated ELO_INIT for the prediction and now holds a rating
\* derived from it
C12_DefaultSubstituted ==
    /\ engine = "run_model"
    /\ baseline["NYY"] = NoRating
    /\ elos["NYY"] # NoRating
    /\ \E k \in 1..Len(results) :
          /\ "NYY" \in {games[results[k].g].home, games[results[k].g].away}
          /\ ELO_INIT * Cents \in {results[k].home_pre, results[k].away_pre}

-----------------------------------------------------------------------------
(* The daily rating job with float ratings: mlb-elo-compute lambda_handler
   when the rating file holds values that are not finite *)

\* float('nan') and float('inf') among ratings held in hundredths
NaN == 999999999
PosInf == 888888888

IsFinite(x) == x \notin {NaN, PosInf}

StoreTeams == {"BAL", "BOS", "NYY"}

\* the elo column as read from the rating file
LoadedRatings == {150000, 152000, NaN, PosInf}

\* yesterday's completed games
StoreGames ==
    { [home |-> m[1], away |-> m[2], home_score |-> s[1], away_score |-> s[2]] :
        m \in {<<"BAL", "BOS">>, <<"NYY", "BAL">>, <<"BOS", "NYY">>},
        s \in {<<3, 1>>, <<0, 2>>} }

\* float addition of a finite shift d, or of a NaN, to a rating
FloatAdd(x, d) ==
    IF x = NaN \/ d = NaN THEN NaN
    ELSE IF x = PosInf THEN PosInf
    ELSE x + d

\* elo_shift of the loop body: NaN when a rating is NaN or both are infinite
\* (inf - inf), 0 when one rating is infinite (the multiplier
\* MOV_MULTIPLIER / (0.001 * inf + MOV_MULTIPLIER) is 0), else the finite shift
FloatShift(tbl, g, cap) ==
    LET h == tbl[g.home]
        a == tbl[g.away]
    IN  IF h = NaN \/ a = NaN \/ (h = PosInf /\ a = PosInf) THEN NaN
        ELSE IF h = PosInf \/ a = PosInf THEN 0
        ELSE EloComputeUpdate([elos |-> tbl], g, cap).elos[g.home] - h

\* team_elo after the iteration for game g
FloatUpdate(tbl, g, cap) ==
    LET shift == FloatShift(tbl, g, cap)
    IN  [tbl EXCEPT ![g.home] = FloatAdd(tbl[g.home], shift),
                    ![g.away] = FloatAdd(tbl[g.away],
                                         IF shift = NaN THEN NaN ELSE -shift)]

StoreInit ==
    /\ elo_loaded \in [StoreTeams -> LoadedRatings]
    /\ team_elo = elo_loaded
    /\ elo_table = [t \in StoreTeams |-> NoRating]
    /\ day_games \in SeqsUpTo(StoreGames, MaxGames)
    /\ store_cap \in MovCapChoices("elo_compute")
    /\ store_pc = "loop"

\* one iteration of the loop: both ratings are updated and put to the table
StoreGame ==
    /\ store_pc = "loop"
    /\ day_games # <<>>
    /\ LET g == Head(day_games)
           nx == FloatUpdate(team_elo, g, store_cap)
       IN  /\ team_elo' = nx
           /\ elo_table' = [elo_table EXCEPT ![g.home] = nx[g.home],
                                             ![g.away] = nx[g.away]]
    /\ day_games' = Tail(day_games)
    /\ UNCHANGED <<elo_loaded, store_cap, store_pc>>
    /\ UNCHANGED nonStoreVars

\* the loop is exhausted: the rows and elo-latest.json are written
StoreFinish ==
    /\ store_pc = "loop"
    /\ day_games = <<>>
    /\ store_pc' = "done"
    /\ UNCHANGED <<elo_loaded, team_elo, elo_table, day_games, store_cap>>
    /\ UNCHANGED nonStoreVars

NextStore == StoreGame \/ StoreFinish

\* the group while another part of the system is being exercised
StoreIdle ==
    /\ elo_loaded = [t \in StoreTeams |-> NoRating]
    /\ team_elo = [t \in StoreTeams |-> NoRating]
    /\ elo_table = [t \in StoreTeams |-> NoRating]
    /\ day_games = <<>>
    /\ store_cap = 0
    /\ store_pc = "idle"

-----------------------------------------------------------------------------
(* C13: non-finite ratings *)

\* C13: every rating the daily job puts to the rating table is finite, and
\* a game one of whose ratings is not finite changes no rating in team_elo.
C13_NonFiniteRejected ==
    /\ \A t \in StoreTeams : elo_table[t] # NoRating => IsFinite(elo_table[t])
    /\ \A t \in StoreTeams : IsFinite(elo_loaded[t]) => IsFinite(team_elo[t])

\* as long as every loaded rating is finite, every stored rating is
C13_FiniteStaysFinite ==
    (\A t \in StoreTeams : IsFinite(elo_loaded[t])) =>
        \A t \in StoreTeams : IsFinite(team_elo[t]) /\ IsFinite(elo_table[t])

\* a NaN rating loaded for one team has been written to the table for a
\* team whose loaded rating was finite
C13_NaNPersisted ==
    \E t \in StoreTeams :
        /\ IsFinite(elo_loaded[t])
        /\ team_elo[t] = NaN
        /\ elo_table[t] = NaN

-----------------------------------------------------------------------------
(* The adjustment model: the context of one game turned into rating
   adjustments and a win probability, by run_model (enhanced_model.py) and
   by enhanced_probability (mlb-season-projections) *)

TRAVEL_PENALTY == 10
INJURY_WAR_WEIGHT == 5
BULLPEN_FIP_WEIGHT == 15
FIP_PRIOR_IP == 50
\* PARK_FACTOR_SCALE = 1.0, in percent
PARK_FACTOR_SCALE == 100

AdjImpls == {"run_model", "enhanced_probability"}

Venues == {"BAL", "SEA"}
AdjAway == "NYY"
\* None as a previous venue or a starter's name
NoVenue == ""
NoName == ""

\* the ratings of the home and the away team, in hundredths
AdjHomeElo == 152000
AdjAwayElo == 149000

PartialFns(D, V) == UNION { [S -> V] : S \in SUBSET D }

\* fip_by_id, fip_by_name: pitcher -> <<raw FIP in hundredths, innings>>
FipById == [id \in {1, 2} |-> IF id = 1 THEN <<FipDict[1], 100>> ELSE <<FipDict[2], 20>>]
FipByName == [n \in {"smith"} |-> <<450, 50>>]
\* the date of the game and the date of the start before it
GameDate == "2025-06-02"
EarlierDate == "2025-05-27"

\* the rolling file: <<pitcher_id, date>> -> <<rolling_fip in hundredths,
\* starts_in_window>>; the file of the contexts that do not vary it
StandardRollingFile == [k \in {<<2, GameDate>>} |-> <<350, 3>>]

\* the mutant of LoadRollingFip: every row of the file is kept
LoadRollingFipUnfiltered(file) == [k \in DOMAIN file |-> file[k][1]]

\* load_rolling_fip: (pid, date) -> rolling_fip of the rows with starts >= 3
LoadRollingFip(file) ==
    [k \in {r \in DOMAIN file : file[r][2] >= 3} |-> file[k][1]]

\* rolling_fip as loaded from the standard file
RollingFip == LoadRollingFip(StandardRollingFile)
\* lg_bp_fip, in hundredths
LgBpFip == 400

\* the use_* arguments of run_model
Flags(fip, rolling, park, bullpen, travel, injuries) ==
    [use_fip |-> fip, use_rolling_fip |-> rolling, use_park |-> park,
     use_bullpen |-> bullpen, use_travel |-> travel, use_injuries |-> injuries]

FlagConfigs ==
    { Flags(FALSE, FALSE, FALSE, FALSE, FALSE, FALSE),
      Flags(TRUE, FALSE, FALSE, FALSE, TRUE, FALSE),
      Flags(TRUE, TRUE, FALSE, FALSE, TRUE, FALSE),
      Flags(TRUE, FALSE, TRUE, FALSE, FALSE, FALSE),
      Flags(FALSE, FALSE, FALSE, TRUE, FALSE, FALSE),
      Flags(FALSE, FALSE, TRUE, TRUE, FALSE, FALSE),
      Flags(FALSE, FALSE, FALSE, FALSE, FALSE, TRUE),
      Flags(TRUE, TRUE, TRUE, TRUE, TRUE, TRUE) }

\* a starter as the schedule row names it: id 0 is None
Starters ==
    { [id |-> 0, name |-> NoName], [id |-> 1, name |-> "jones"],
      [id |-> 2, name |-> "brown"], [id |-> 3, name |-> "smith"],
      [id |-> 3, name |-> "doe"], [id |-> 0, name |-> "doe"] }

\* distances: the pair of venues in both directions, or no entry
DistanceTables ==
    { [p \in {} |-> 0] } \cup
    { [p \in {<<"BAL", "SEA">>, <<"SEA", "BAL">>} |-> d] : d \in {999, 1000, 2300} }

TzTables == PartialFns(Venues, {-8, -6, -5, -4})

\* a context with no travel, every table empty and both starters given
Context(home, hsp, asp, flags, fip_loaded, pf, bp, inj, prev, tz, dist) ==
    [home |-> home, away |-> AdjAway, home_sp |-> hsp, away_sp |-> asp,
     flags |-> flags, fip_loaded |-> fip_loaded, park_factors |-> pf,
     bullpen_fip |-> bp, injury_war |-> inj, prev |-> prev,
     tz_offsets |-> tz, distances |-> dist,
     date |-> GameDate, rolling_file |-> StandardRollingFile]

EastTz == [v \in Venues |-> IF v = "BAL" THEN -4 ELSE -8]
FarDist == [p \in {<<"BAL", "SEA">>, <<"SEA", "BAL">>} |-> 2300]

\* the contexts that vary the pitching, park, bullpen and injury inputs
PitchingContexts ==
    { Context("BAL", hsp, asp, flags, fip_loaded, pf, bp, inj, prev, EastTz, FarDist) :
        hsp \in Starters, asp \in Starters, flags \in FlagConfigs,
        fip_loaded \in BOOLEAN,
        pf \in PartialFns({"BAL"}, {100, 110}),
        bp \in PartialFns({"BAL", AdjAway}, {380}),
        inj \in PartialFns({AdjAway}, {200}),
        prev \in {NoVenue, "SEA"} }

\* the contexts that vary the travel inputs
TravelContexts ==
    { Context(home, [id |-> 1, name |-> "jones"], [id |-> 0, name |-> NoName],
              flags, TRUE, [t \in {} |-> 0], [t \in {} |-> 0], [t \in {} |-> 0],
              prev, tz, dist) :
        home \in Venues, flags \in { f \in FlagConfigs : f.use_travel },
        prev \in {NoVenue} \cup Venues, tz \in TzTables, dist \in DistanceTables }

\* the rolling files: rows for pitchers 2 and 3, on the game's date or
\* an earlier one, computed from 2, 3 or 7 prior starts
RollingFiles ==
    PartialFns({<<2, GameDate>>, <<2, EarlierDate>>, <<3, GameDate>>},
               {<<350, 2>>, <<350, 3>>, <<420, 7>>})

\* the contexts that vary the rolling file
RollingContexts ==
    { [Context("BAL", hsp, asp, flags, fip_loaded, [t \in {} |-> 0], [t \in {} |-> 0],
               [t \in {} |-> 0], NoVenue, EastTz, FarDist)
          EXCEPT !.rolling_file = file] :
        hsp \in Starters, asp \in {[id |-> 3, name |-> "doe"]},
        flags \in { f \in FlagConfigs : f.use_rolling_fip /\ ~f.use_park },
        fip_loaded \in BOOLEAN, file \in RollingFiles }

Contexts == PitchingContexts \cup TravelContexts \cup RollingContexts

NoOutput == [prob |-> NA]

\* the mutant of GetTravelPenalty: a shift of two zones in either direction
GetTravelPenaltyEitherWay(venue_team, prev, tz_offsets, distances) ==
    IF prev = NoVenue \/ prev = venue_team THEN 0
    ELSE LET dist == IF <<prev, venue_team>> \in DOMAIN distances
                     THEN distances[<<prev, venue_team>>] ELSE 0
             tz_from == IF prev \in DOMAIN tz_offsets THEN tz_offsets[prev] ELSE -6
             tz_to == IF venue_team \in DOMAIN tz_offsets
                      THEN tz_offsets[venue_team] ELSE -6
         IN  IF dist < 1000 THEN 0
             ELSE IF Abs(tz_to - tz_from) >= 2 THEN TRAVEL_PENALTY * Cents
             ELSE 0

\* get_travel_penalty, in hundredths of a rating point
GetTravelPenalty(venue_team, prev, tz_offsets, distances) ==
    IF prev = NoVenue \/ prev = venue_team THEN 0
    ELSE LET dist == IF <<prev, venue_team>> \in DOMAIN distances
                     THEN distances[<<prev, venue_team>>] ELSE 0
             tz_from == IF prev \in DOMAIN tz_offsets THEN tz_offsets[prev] ELSE -6
             tz_to == IF venue_team \in DOMAIN tz_offsets
                      THEN tz_offsets[venue_team] ELSE -6
         IN  IF dist < 1000 THEN 0
             ELSE IF tz_to - tz_from >= 2 THEN TRAVEL_PENALTY * Cents
             ELSE 0

\* the season FIP entry of a starter: by id, then by name; <<>> is None
SeasonFipData(sp, loaded) ==
    IF ~loaded THEN <<>>
    ELSE IF sp.id \in DOMAIN FipById THEN FipById[sp.id]
    ELSE IF sp.name # NoName /\ sp.name \in DOMAIN FipByName THEN FipByName[sp.name]
    ELSE <<>>

\* whether the rolling lookup of run_model finds a value for the starter
RollingHit(sp, flags, rolling_fip, date) ==
    flags.use_rolling_fip /\ sp.id # 0 /\ <<sp.id, date>> \in DOMAIN rolling_fip

\* home_fip / away_fip of run_model, NA for None
StarterFip(sp, flags, loaded, rolling_fip, date) ==
    IF RollingHit(sp, flags, rolling_fip, date)
    THEN rolling_fip[<<sp.id, date>>]
    ELSE LET fip_data == SeasonFipData(sp, loaded)
         IN  IF fip_data = <<>> THEN NA
             ELSE RoundDiv(fip_data[2] * fip_data[1] + FIP_PRIOR_IP * LgFip,
                           fip_data[2] + FIP_PRIOR_IP)

\* home_fip_adj / away_fip_adj before park scaling
StarterFipAdj(sp, flags, loaded, rolling_fip, date) ==
    IF ~(flags.use_fip \/ flags.use_rolling_fip) THEN 0
    ELSE LET fip == StarterFip(sp, flags, loaded, rolling_fip, date)
         IN  IF fip = NA THEN 0 ELSE (LgFip - fip) * FIP_WEIGHT

\* park_adj_factor, in 1/10000
ParkAdjFactor(home, flags, park_factors) ==
    LET pf == IF home \in DOMAIN park_factors THEN park_factors[home] ELSE 100
    IN  IF flags.use_park /\ pf # 100
        THEN RoundDiv(100 * PARK_FACTOR_SCALE * 100, pf) + (100 - PARK_FACTOR_SCALE) * 100
        ELSE 10000

ParkScaled(adj, factor) == RoundDiv(adj * factor, 10000)

\* home_bp_adj / away_bp_adj
BullpenAdj(team, flags, bullpen_fip, factor) ==
    IF flags.use_bullpen /\ team \in DOMAIN bullpen_fip
    THEN LET bp == (LgBpFip - bullpen_fip[team]) * BULLPEN_FIP_WEIGHT
         IN  IF flags.use_park THEN ParkScaled(bp, factor) ELSE bp
    ELSE 0

\* home_injury_adj / away_injury_adj: injury_war.get(team, 0) * INJURY_WAR_WEIGHT
InjuryAdj(team, flags, injury_war) ==
    IF flags.use_injuries /\ team \in DOMAIN injury_war
    THEN injury_war[team] * INJURY_WAR_WEIGHT
    ELSE 0

\* the adjustments and the probability run_model computes for one game; the
\* setup switches a feature off when its table is empty
RunModelAdjust(c) ==
    LET flags == [c.flags EXCEPT
                    !.use_fip = c.flags.use_fip /\ c.fip_loaded,
                    !.use_rolling_fip = c.flags.use_rolling_fip /\ c.fip_loaded,
                    !.use_bullpen = c.flags.use_bullpen /\ DOMAIN c.bullpen_fip # {},
                    !.use_park = c.flags.use_park /\ DOMAIN c.park_factors # {},
                    !.use_travel = c.flags.use_travel /\ DOMAIN c.distances # {}]
        rolling_fip == IF flags.use_rolling_fip THEN LoadRollingFip(c.rolling_file)
                       ELSE [k \in {} |-> 0]
        factor == ParkAdjFactor(c.home, flags, c.park_factors)
        home_fip_adj == ParkScaled(StarterFipAdj(c.home_sp, flags, c.fip_loaded,
                                                 rolling_fip, c.date), factor)
        away_fip_adj == ParkScaled(StarterFipAdj(c.away_sp, flags, c.fip_loaded,
                                                 rolling_fip, c.date), factor)
        rolling_fip_used ==
            (IF RollingHit(c.home_sp, flags, rolling_fip, c.date) THEN 1 ELSE 0)
            + (IF RollingHit(c.away_sp, flags, rolling_fip, c.date) THEN 1 ELSE 0)
        home_bp_adj == BullpenAdj(c.home, flags, c.bullpen_fip, factor)
        away_bp_adj == BullpenAdj(c.away, flags, c.bullpen_fip, factor)
        travel_adj == IF flags.use_travel
                      THEN GetTravelPenalty(c.home, c.prev, c.tz_offsets, c.distances)
                      ELSE 0
        home_injury_adj == InjuryAdj(c.home, flags, c.injury_war)
        away_injury_adj == InjuryAdj(c.away, flags, c.injury_war)
        home_adj == home_fip_adj + home_bp_adj - home_injury_adj
        away_adj == away_fip_adj + away_bp_adj - travel_adj - away_injury_adj
    IN  [home_fip_adj |-> home_fip_adj, away_fip_adj |-> away_fip_adj,
         rolling_fip_used |-> rolling_fip_used,
         home_bp_adj |-> home_bp_adj, away_bp_adj |-> away_bp_adj,
         travel_adj |-> travel_adj,
         home_injury_adj |-> home_injury_adj, away_injury_adj |-> away_injury_adj,
         home_adj |-> home_adj, away_adj |-> away_adj,
         prob |-> ApplyShrinkage(PROB_SHRINKAGE,
                     ExpectedScore(AdjHomeElo + home_adj, AdjAwayElo + away_adj, ELO_HFA))]

\* enhanced_probability of the projections job, with the adjustments it used
EnhancedAdjust(c) ==
    LET adj == IF c.fip_loaded THEN FipAdjustment(c.home_sp.id, c.away_sp.id)
               ELSE <<0, 0>>
    IN  [home_adj |-> adj[1], away_adj |-> adj[2],
         prob |-> EnhancedProbability(AdjHomeElo, AdjAwayElo,
                                      c.home_sp.id, c.away_sp.id, c.fip_loaded)]

AdjInit ==
    /\ adj_impl \in AdjImpls
    /\ ctx \in Contexts
    /\ adj_out = NoOutput
    /\ adj_pc = "game"

\* one iteration of run_model's loop up to home_win_prob
RunModelGame ==
    /\ adj_pc = "game"
    /\ adj_impl = "run_model"
    /\ adj_out' = RunModelAdjust(ctx)
    /\ adj_pc' = "done"
    /\ UNCHANGED <<adj_impl, ctx>>
    /\ UNCHANGED nonAdjVars

\* one call of enhanced_probability
EnhancedProbabilityCall ==
    /\ adj_pc = "game"
    /\ adj_impl = "enhanced_probability"
    /\ adj_out' = EnhancedAdjust(ctx)
    /\ adj_pc' = "done"
    /\ UNCHANGED <<adj_impl, ctx>>
    /\ UNCHANGED nonAdjVars

NextAdj == RunModelGame \/ EnhancedProbabilityCall

\* the group while another part of the system is being exercised
AdjIdle ==
    /\ adj_impl = "none"
    /\ ctx = [home |-> NoVenue]
    /\ adj_out = NoOutput
    /\ adj_pc = "idle"

-----------------------------------------------------------------------------
(* C14: missing context contributes zero *)

\* the starter is unknown or in none of the tables run_model consults
AbsentStarter(sp) ==
    /\ sp.id = 0 \/ (sp.id \notin DOMAIN FipById
                       /\ <<sp.id, ctx.date>> \notin DOMAIN LoadRollingFip(ctx.rolling_file))
    /\ sp.name = NoName \/ sp.name \notin DOMAIN FipByName

\* the starter is unknown or absent from fip_dict
AbsentFromFipDict(sp) == sp.id = 0 \/ sp.id \notin DOMAIN FipDict

KnownStarter == [id |-> 1, name |-> "jones"]

\* C14: a side whose starter is unknown or absent from the FIP table has a
\* starter adjustment of 0 while the other side's adjustment is what it is
\* with a known starter opposite; absent FIP data, an absent bullpen FIP, an
\* absent park factor and an absent previous venue contribute 0; a win
\* probability is produced in every case.
C14_MissingContextContributesZero ==
    adj_pc = "done" =>
        /\ adj_out.prob \in 0..ProbScale
        /\ adj_impl = "enhanced_probability" =>
            /\ ~ctx.fip_loaded => adj_out.home_adj = 0 /\ adj_out.away_adj = 0
            /\ AbsentFromFipDict(ctx.home_sp) =>
                /\ adj_out.home_adj = 0
                /\ adj_out.away_adj =
                       EnhancedAdjust([ctx EXCEPT !.home_sp = KnownStarter]).away_adj
            /\ AbsentFromFipDict(ctx.away_sp) =>
                /\ adj_out.away_adj = 0
                /\ adj_out.home_adj =
                       EnhancedAdjust([ctx EXCEPT !.away_sp = KnownStarter]).home_adj
        /\ adj_impl = "run_model" =>
            /\ ~ctx.fip_loaded => adj_out.home_fip_adj = 0 /\ adj_out.away_fip_adj = 0
            /\ AbsentStarter(ctx.home_sp) =>
                /\ adj_out.home_fip_adj = 0
                /\ adj_out.away_fip_adj =
                       RunModelAdjust([ctx EXCEPT !.home_sp = KnownStarter]).away_fip_adj
            /\ AbsentStarter(ctx.away_sp) =>
                /\ adj_out.away_fip_adj = 0
                /\ adj_out.home_fip_adj =
                       RunModelAdjust([ctx EXCEPT !.away_sp = KnownStarter]).home_fip_adj
            /\ ctx.home \notin DOMAIN ctx.bullpen_fip => adj_out.home_bp_adj = 0
            /\ ctx.away \notin DOMAIN ctx.bullpen_fip => adj_out.away_bp_adj = 0
            /\ ctx.home \notin DOMAIN ctx.park_factors =>
                   adj_out = RunModelAdjust([ctx EXCEPT !.flags.use_park = FALSE])
            /\ ctx.prev = NoVenue => adj_out.travel_adj = 0
            /\ adj_out.home_adj = adj_out.home_fip_adj + adj_out.home_bp_adj
                                      - adj_out.home_injury_adj
            /\ adj_out.away_adj = adj_out.away_fip_adj + adj_out.away_bp_adj
                                      - adj_out.travel_adj - adj_out.away_injury_adj

\* run_model with every feature on: the home starter is unknown, the home
\* team has no bullpen FIP, no park factor and the away team no previous
\* venue, while the away starter and the away bullpen do move the rating
C14_Witness ==
    /\ adj_pc = "done"
    /\ adj_impl = "run_model"
    /\ ctx.flags = Flags(TRUE, TRUE, TRUE, TRUE, TRUE, TRUE)
    /\ ctx.fip_loaded
    /\ ctx.home_sp.id = 0 /\ ctx.home_sp.name = NoName
    /\ ctx.home \notin DOMAIN ctx.bullpen_fip
    /\ ctx.home \notin DOMAIN ctx.park_factors
    /\ ctx.prev = NoVenue
    /\ adj_out.home_adj = 0
    /\ adj_out.away_fip_adj # 0
    /\ adj_out.away_bp_adj # 0
    /\ adj_out.prob \in 1..(ProbScale - 1)

\* enhanced_probability with the FIP table loaded and the away starter
\* missing from it
C14_WitnessProjection ==
    /\ adj_pc = "done"
    /\ adj_impl = "enhanced_probability"
    /\ ctx.fip_loaded
    /\ ctx.away_sp.id = 3
    /\ adj_out.away_adj = 0
    /\ adj_out.home_adj # 0

-----------------------------------------------------------------------------
(* C15: the travel penalty condition *)

\* the game's venue and the previous venue, when there is one, have an
\* entry in the UTC offset table
OffsetsKnown ==
    /\ ctx.home \in DOMAIN ctx.tz_offsets
    /\ ctx.prev # NoVenue => ctx.prev \in DOMAIN ctx.tz_offsets

\* the away team changed venue, over at least 1000 miles, at least two
\* zones eastward
LongEastwardTrip ==
    /\ ctx.prev # NoVenue
    /\ ctx.prev # ctx.home
    /\ <<ctx.prev, ctx.home>> \in DOMAIN ctx.distances
    /\ ctx.distances[<<ctx.prev, ctx.home>>] >= 1000
    /\ ctx.tz_offsets[ctx.home] - ctx.tz_offsets[ctx.prev] >= 2

C15_WitnessWestward ==
    /\ adj_pc = "done"
    /\ adj_impl = "run_model"
    /\ ctx.flags.use_travel
    /\ OffsetsKnown
    /\ ctx.prev = "BAL" /\ ctx.home = "SEA"
    /\ <<"BAL", "SEA">> \in DOMAIN ctx.distances
    /\ ctx.distances[<<"BAL", "SEA">>] = 2300
    /\ ctx.tz_offsets["SEA"] - ctx.tz_offsets["BAL"] = -4
    /\ adj_out.travel_adj = 0

-----------------------------------------------------------------------------
(* The injury adjustment of one team: compute_injury_adjustments
   (mlb_common/injury.py) and the impact report of injury_impact.py whose
   total run_model turns into a rating adjustment.  WAR is held in tenths,
   the adjustment in tenths of a rating point *)

\* INJURY_WAR_TO_ELO = 5.5, in tenths
INJURY_WAR_TO_ELO == 55

\* the longest injured list
MaxIL == 2

InjImpls == {"compute_injury_adjustments", "injury_impact"}

\* the injured players by MLB id; id_map knows the first two
IlPlayers == {1, 2, 3}
IdMap == [mlb_id \in {1, 2} |-> mlb_id + 100]

\* WAR in tenths
WarValues == {-5, 0, 12}

\* the four WAR tables: player 101 takes every combination of entries,
\* player 102 has a current-season batting WAR of 2.3
WarTables ==
    { [bat_war |-> [id \in DOMAIN b \cup {102} |-> IF id = 102 THEN 23 ELSE b[id]],
       pit_war |-> p, bat_war_prev |-> bp, pit_war_prev |-> pp] :
        b \in PartialFns({101}, WarValues), p \in PartialFns({101}, WarValues),
        bp \in PartialFns({101}, WarValues), pp \in PartialFns({101}, WarValues) }

\* the merge of a season's batting and pitching WAR in load_war_data:
\* the maximum where both exist, else the one that exists
MergeWar(bat, pit) ==
    [id \in DOMAIN bat \cup DOMAIN pit |->
        IF id \in DOMAIN bat /\ id \in DOMAIN pit THEN Max(bat[id], pit[id])
        ELSE IF id \in DOMAIN bat THEN bat[id] ELSE pit[id]]

\* lookup_war for one season, fg_id being in one of the two tables
SeasonWar(fg_id, bat, pit) ==
    LET hasb == fg_id \in DOMAIN bat
        hasp == fg_id \in DOMAIN pit
        war == Max(IF hasb THEN bat[fg_id] ELSE 0, IF hasp THEN pit[fg_id] ELSE 0)
    IN  IF war = 0 /\ hasb /\ hasp THEN Max(bat[fg_id], pit[fg_id])
        ELSE IF war = 0 THEN (IF hasb THEN bat[fg_id] ELSE pit[fg_id])
        ELSE war

\* the WAR found for a player and its source
LookupWar(impl, mlb_id, t) ==
    IF mlb_id \notin DOMAIN IdMap THEN [known |-> FALSE, war |-> 0, source |-> "unknown"]
    ELSE LET fg_id == IdMap[mlb_id]
         IN  IF impl = "compute_injury_adjustments"
             THEN LET fg_war == MergeWar(t.bat_war, t.pit_war)
                      fg_war_prev == MergeWar(t.bat_war_prev, t.pit_war_prev)
                  IN  IF fg_id \in DOMAIN fg_war
                      THEN [known |-> TRUE, war |-> fg_war[fg_id], source |-> "current"]
                      ELSE IF fg_id \in DOMAIN fg_war_prev
                      THEN [known |-> TRUE, war |-> fg_war_prev[fg_id],
                            source |-> "prior_year"]
                      ELSE [known |-> FALSE, war |-> 0, source |-> "unknown"]
             ELSE IF fg_id \in DOMAIN t.bat_war \/ fg_id \in DOMAIN t.pit_war
                  THEN [known |-> TRUE, war |-> SeasonWar(fg_id, t.bat_war, t.pit_war),
                        source |-> "current"]
                  ELSE IF fg_id \in DOMAIN t.bat_war_prev \/ fg_id \in DOMAIN t.pit_war_prev
                  THEN [known |-> TRUE,
                        war |-> SeasonWar(fg_id, t.bat_war_prev, t.pit_war_prev),
                        source |-> "prior_year"]
                  ELSE [known |-> FALSE, war |-> 0, source |-> "unknown"]

\* the mutant of WarImpact: the WAR is counted with its sign
WarImpactSigned(found) == IF found.known THEN found.war ELSE 0

\* war_impact = max(war, 0.0) if war is not None else 0.0
WarImpact(found) == IF found.known THEN Max(found.war, 0) ELSE 0

\* the team's adjustment from total_war_lost: round(-1 * total * war_to_elo, 1),
\* or the - total_war_lost * INJURY_WAR_WEIGHT of run_model
TeamAdjustment(impl, total) ==
    IF impl = "compute_injury_adjustments"
    THEN RoundDiv(-1 * total * INJURY_WAR_TO_ELO, 10)
    ELSE -(total * INJURY_WAR_WEIGHT)

InjInit ==
    /\ inj_impl \in InjImpls
    /\ war_tables \in WarTables
    /\ il_roster \in SeqsUpTo(IlPlayers, MaxIL) \cup {<<>>}
    /\ il_i = 1
    /\ total_war_lost = 0
    /\ player_details = <<>>
    /\ elo_adjustment = 0
    /\ inj_pc = "players"

\* one iteration of the loop over the team's injured players
InjPlayer ==
    /\ inj_pc = "players"
    /\ il_i <= Len(il_roster)
    /\ LET found == LookupWar(inj_impl, il_roster[il_i], war_tables)
       IN  /\ total_war_lost' = total_war_lost + WarImpact(found)
           /\ player_details' = Append(player_details,
                  [mlb_id |-> il_roster[il_i], known |-> found.known, war |-> found.war,
                   war_source |-> found.source, war_impact |-> WarImpact(found)])
    /\ il_i' = il_i + 1
    /\ UNCHANGED <<inj_impl, war_tables, il_roster, elo_adjustment, inj_pc>>
    /\ UNCHANGED nonInjVars

\* the loop is exhausted: the team's adjustment is computed
InjTeam ==
    /\ inj_pc = "players"
    /\ il_i > Len(il_roster)
    /\ elo_adjustment' = TeamAdjustment(inj_impl, total_war_lost)
    /\ inj_pc' = "done"
    /\ UNCHANGED <<inj_impl, war_tables, il_roster, il_i, total_war_lost, player_details>>
    /\ UNCHANGED nonInjVars

NextInj == InjPlayer \/ InjTeam

\* the group while another part of the system is being exercised
InjIdle ==
    /\ inj_impl = "none"
    /\ war_tables = <<>>
    /\ il_roster = <<>>
    /\ il_i = 0
    /\ total_war_lost = 0
    /\ player_details = <<>>
    /\ elo_adjustment = 0
    /\ inj_pc = "idle"

-----------------------------------------------------------------------------
(* C16: the injury adjustment counts only positive WAR *)

\* the entries a season has for a player
SeasonEntries(fg_id, bat, pit) ==
    (IF fg_id \in DOMAIN bat THEN {bat[fg_id]} ELSE {}) \cup
    (IF fg_id \in DOMAIN pit THEN {pit[fg_id]} ELSE {})

SetMax(S) == CHOOSE x \in S : \A y \in S : y <= x

\* the WAR the claim speaks of: the current season's when the player has
\* one, else the prior season's, else none
ClaimedWar(mlb_id) ==
    IF mlb_id \notin DOMAIN IdMap THEN {}
    ELSE LET cur == SeasonEntries(IdMap[mlb_id], war_tables.bat_war, war_tables.pit_war)
             prev == SeasonEntries(IdMap[mlb_id], war_tables.bat_war_prev,
                                   war_tables.pit_war_prev)
         IN  IF cur # {} THEN {SetMax(cur)} ELSE IF prev # {} THEN {SetMax(prev)} ELSE {}

\* max(WAR, 0), and 0 for an unknown WAR
PositiveWar(mlb_id) ==
    IF ClaimedWar(mlb_id) = {} THEN 0 ELSE Max(SetMax(ClaimedWar(mlb_id)), 0)

\* C16: the team's adjustment is minus the sum over its injured players of
\* max(WAR, 0) times the factor (rounded to a tenth where the code rounds),
\* it is never positive, a player of negative or unknown WAR contributes 0,
\* and the WAR is the current season's when present, the prior season's
\* only when the current one is absent.
C16_OnlyPositiveWar ==
    /\ inj_pc \in {"players", "done"} =>
        /\ Len(player_details) = il_i - 1
        /\ \A k \in 1..Len(player_details) :
            LET d == player_details[k]
            IN  /\ d.war_impact = PositiveWar(il_roster[k])
                /\ d.war_impact >= 0
                /\ (~d.known \/ d.war < 0) => d.war_impact = 0
                /\ d.known <=> ClaimedWar(il_roster[k]) # {}
                /\ d.known => d.war = SetMax(ClaimedWar(il_roster[k]))
                /\ d.war_source = "current" <=>
                       /\ il_roster[k] \in DOMAIN IdMap
                       /\ SeasonEntries(IdMap[il_roster[k]], war_tables.bat_war,
                                        war_tables.pit_war) # {}
        /\ total_war_lost =
               SumOver([k \in 1..Len(player_details) |-> PositiveWar(il_roster[k])],
                       1..Len(player_details))
    /\ inj_pc = "done" =>
        /\ elo_adjustment <= 0
        /\ elo_adjustment =
               IF inj_impl = "compute_injury_adjustments"
               THEN RoundDiv(-(total_war_lost * INJURY_WAR_TO_ELO), 10)
               ELSE -(total_war_lost * INJURY_WAR_WEIGHT)

\* a team with a player of negative current WAR whose prior WAR was
\* positive, and a player worth 2.3 WAR: only the latter is counted
C16_Witness ==
    /\ inj_pc = "done"
    /\ inj_impl = "compute_injury_adjustments"
    /\ il_roster = <<1, 2>>
    /\ player_details[1].war = -5 /\ player_details[1].war_source = "current"
    /\ 101 \in DOMAIN war_tables.bat_war_prev /\ war_tables.bat_war_prev[101] = 12
    /\ total_war_lost = 23
    /\ elo_adjustment = -127

-----------------------------------------------------------------------------
(* The preseason-adjustment job: apply_adjustments of
   mlb-preseason-adjustment, run week after week *)

\* the most runs of the job followed
MaxRuns == 3

\* the team codes of the end-of-season file
BaselineCodes == {"BAL", "KCR"}

\* standardize_team: SCHEDULE_TO_ELO_MAP.get(code, code)
StandardizeTeam(code) == IF code = "KCR" THEN "KC" ELSE code

\* the end-of-season ratings, in hundredths
OriginalBaselines == [BaselineCodes -> {150000, 153025}]

\* adjustments of one run: team -> elo_adj in hundredths (a multiple of 0.1)
AdjustmentChoices == PartialFns({"BAL", "KC"}, {-550, 0, 1100})

\* the object under a key that does not exist
NoFile == <<>>

\* the mutant of BaseOfRun: the baseline file is read whether or not a raw
\* backup exists
BaseOfRunFromBaseline(raw, adjusted) == adjusted

\* baseline_df: the raw backup when it can be read, else the baseline file
BaseOfRun(raw, adjusted) == IF raw # NoFile THEN raw ELSE adjusted

\* results: team and round(base_elo + elo_shift, 2) for every row
AdjustedRows(base, adjustments) ==
    [team \in { StandardizeTeam(c) : c \in DOMAIN base } |->
        LET code == CHOOSE c \in DOMAIN base : StandardizeTeam(c) = team
            elo_shift == IF team \in DOMAIN adjustments THEN adjustments[team] ELSE 0
        IN  base[code] + elo_shift]

PreInit ==
    /\ original_baseline \in OriginalBaselines
    /\ baseline_csv = original_baseline
    /\ raw_csv = NoFile
    /\ rating_items = NoFile
    /\ last_adjustments = NoFile
    /\ pre_runs = 0

\* one run of apply_adjustments with the adjustments computed that week
PreseasonRun ==
    /\ pre_runs >= 0
    /\ pre_runs < MaxRuns
    /\ \E adjustments \in AdjustmentChoices :
        LET base == BaseOfRun(raw_csv, baseline_csv)
            adjusted_df == AdjustedRows(base, adjustments)
        IN  /\ raw_csv' = IF raw_csv = NoFile THEN baseline_csv ELSE raw_csv
            /\ rating_items' = adjusted_df
            /\ baseline_csv' = adjusted_df
            /\ last_adjustments' = adjustments
    /\ pre_runs' = pre_runs + 1
    /\ UNCHANGED original_baseline
    /\ UNCHANGED nonPreVars

NextPre == PreseasonRun

\* the group while another part of the system is being exercised
PreIdle ==
    /\ original_baseline = NoFile
    /\ baseline_csv = NoFile
    /\ raw_csv = NoFile
    /\ rating_items = NoFile
    /\ last_adjustments = NoFile
    /\ pre_runs = -1

-----------------------------------------------------------------------------
(* C17: the preseason adjustment is idempotent *)

C17_RawBackupKept == [][raw_csv # NoFile => raw_csv' = raw_csv]_vars

-----------------------------------------------------------------------------
(* One run of the season-projections job against the stores: the rating
   table, the rating bucket and the predictions bucket *)

ELO_BUCKET == "mlb-elo-ratings-output"
PREDICTIONS_BUCKET == "mlb-predictions"

\* injury-adjustments-latest.json: team -> elo_adjustment in hundredths
InjuryFiles == PartialFns({"BAL"}, {-1270})

\* games played per team in the schedule
ProjGamesPlayed == [FadeTeams -> {0, 50, 162}]

\* the rating bucket at the start of a run: the objects the job reads
RatingBuckets ==
    { [k \in {<<ELO_BUCKET, "fip-latest.json">>} \cup
             (IF inj = <<>> THEN {} ELSE {<<ELO_BUCKET, "injury-adjustments-latest.json">>})
             \cup (IF pre = <<>> THEN {} ELSE {<<ELO_BUCKET, "preseason-elo.json">>}) |->
          IF k[2] = "fip-latest.json" THEN FipDict
          ELSE IF k[2] = "injury-adjustments-latest.json" THEN inj
          ELSE pre] :
        inj \in InjuryFiles,
        pre \in PreseasonTables("regress_elo_to_preseason") \cup {<<>>} }

\* the mutant of PutObject: the object is put to the rating bucket
PutObjectToRatingBucket(objects, bucket, key, body) ==
    [k \in DOMAIN objects \cup {<<ELO_BUCKET, key>>} |->
        IF k = <<ELO_BUCKET, key>> THEN body ELSE objects[k]]

\* s3.put_object(Bucket=bucket, Key=key, Body=body)
PutObject(objects, bucket, key, body) ==
    [k \in DOMAIN objects \cup {<<bucket, key>>} |->
        IF k = <<bucket, key>> THEN body ELSE objects[k]]

\* read_json_from_s3 guarded by try/except: <<>> when the key is absent
ReadOrNone(objects, bucket, key) ==
    IF <<bucket, key>> \in DOMAIN objects THEN objects[<<bucket, key>>] ELSE <<>>

\* adjusted_elo of lambda_handler: elo + injury_adj.get(team, 0), then the
\* blend with the preseason ratings when they were loaded
AdjustedElo(items, objects, gp) ==
    LET injury_adj == ReadOrNone(objects, ELO_BUCKET, "injury-adjustments-latest.json")
        preseason == ReadOrNone(objects, ELO_BUCKET, "preseason-elo.json")
        with_inj == [t \in DOMAIN items |->
                        items[t] + (IF t \in DOMAIN injury_adj THEN injury_adj[t] ELSE 0)]
    IN  IF preseason = <<>> THEN with_inj
        ELSE [t \in DOMAIN items |->
                 RegressEloToPreseason(with_inj[t], preseason[t], gp[t])]

ProjInit ==
    /\ elo_items \in CurrentTables
    /\ s3_objects \in RatingBuckets
    /\ proj_gp \in ProjGamesPlayed
    /\ adjusted_elo = <<>>
    /\ proj_pc = "load"

\* fetch_latest_elo_ratings, the loads, the injury adjustment and the blend
ProjLoad ==
    /\ proj_pc = "load"
    /\ adjusted_elo' = AdjustedElo(elo_items, s3_objects, proj_gp)
    /\ proj_pc' = "predictions"
    /\ UNCHANGED <<elo_items, s3_objects, proj_gp>>
    /\ UNCHANGED nonProjVars

\* generate_next_game_predictions
ProjPredictions ==
    /\ proj_pc = "predictions"
    /\ s3_objects' = PutObject(s3_objects, PREDICTIONS_BUCKET, "next_game_win_expectancy.csv",
                        EnhancedProbability(adjusted_elo["BAL"], adjusted_elo["BOS"], 1, 0,
                                            TRUE))
    /\ proj_pc' = "simulate"
    /\ UNCHANGED <<elo_items, proj_gp, adjusted_elo>>
    /\ UNCHANGED nonProjVars

\* simulate_season: the simulated win totals go to the predictions bucket
ProjSimulate ==
    /\ proj_pc = "simulate"
    /\ \E wins \in [FadeTeams -> {70, 92}] :
        s3_objects' = PutObject(
            PutObject(s3_objects, PREDICTIONS_BUCKET, "season_win_simulations.parquet", wins),
            PREDICTIONS_BUCKET, "season_win_projection_summary.csv", wins)
    /\ proj_pc' = "standings"
    /\ UNCHANGED <<elo_items, proj_gp, adjusted_elo>>
    /\ UNCHANGED nonProjVars

\* compute_standings_and_gb
ProjStandings ==
    /\ proj_pc = "standings"
    /\ LET summary == ReadOrNone(s3_objects, PREDICTIONS_BUCKET,
                                 "season_win_projection_summary.csv")
       IN  s3_objects' = PutObject(
               PutObject(s3_objects, PREDICTIONS_BUCKET, "standings-latest.json", summary),
               PREDICTIONS_BUCKET, "projections-latest.json", summary)
    /\ proj_pc' = "odds"
    /\ UNCHANGED <<elo_items, proj_gp, adjusted_elo>>
    /\ UNCHANGED nonProjVars

\* compute_playoff_odds
ProjOdds ==
    /\ proj_pc = "odds"
    /\ LET sims == ReadOrNone(s3_objects, PREDICTIONS_BUCKET,
                              "season_win_simulations.parquet")
       IN  s3_objects' = PutObject(s3_objects, PREDICTIONS_BUCKET, "playoff-odds-latest.json",
                                   [t \in FadeTeams |-> sims[t] >= 92])
    /\ proj_pc' = "done"
    /\ UNCHANGED <<elo_items, proj_gp, adjusted_elo>>
    /\ UNCHANGED nonProjVars

NextProj == ProjLoad \/ ProjPredictions \/ ProjSimulate \/ ProjStandings \/ ProjOdds

\* the group while another part of the system is being exercised
ProjIdle ==
    /\ elo_items = <<>>
    /\ s3_objects = <<>>
    /\ proj_gp = <<>>
    /\ adjusted_elo = <<>>
    /\ proj_pc = "idle"

-----------------------------------------------------------------------------
(* C18: projection-time adjustments never modify stored ratings *)

\* the objects of the rating bucket
RatingObjects(objects) ==
    [k \in { j \in DOMAIN objects : j[1] = ELO_BUCKET } |-> objects[k]]

\* C18: no step of a season-projections run changes an item of the rating
\* table or an object of the rating bucket.
C18_StoredRatingsUntouched ==
    [][ /\ elo_items' = elo_items
        /\ RatingObjects(s3_objects') = RatingObjects(s3_objects) ]_vars

\* a finished run that simulated with ratings other than the stored ones
\* (injury adjustment and preseason blend) and wrote its outputs
C18_Witness ==
    /\ proj_pc = "done"
    /\ \A t \in FadeTeams : adjusted_elo[t] # elo_items[t]
    /\ <<ELO_BUCKET, "injury-adjustments-latest.json">> \in DOMAIN s3_objects
    /\ <<PREDICTIONS_BUCKET, "playoff-odds-latest.json">> \in DOMAIN s3_objects
    /\ <<PREDICTIONS_BUCKET, "projections-latest.json">> \in DOMAIN s3_objects

-----------------------------------------------------------------------------
(* The parameter sweep: sweep_parameters of enhanced_model.py, the backtest
   of a configuration being run_model on a season of one game *)

\* the grids, cut to two values a parameter
SweepGrid(v2) ==
    IF v2
    THEN << [fw |-> 25, bw |-> 0, pf |-> 0, ps |-> 600, pp |-> FIP_PRIOR_IP],
            [fw |-> 25, bw |-> 15, pf |-> 100, ps |-> 600, pp |-> FIP_PRIOR_IP],
            [fw |-> 50, bw |-> 0, pf |-> 0, ps |-> 1400, pp |-> FIP_PRIOR_IP],
            [fw |-> 50, bw |-> 15, pf |-> 100, ps |-> 1400, pp |-> FIP_PRIOR_IP] >>
    ELSE << [fw |-> 25, bw |-> BULLPEN_FIP_WEIGHT, pf |-> PARK_FACTOR_SCALE, ps |-> 800, pp |-> 25],
            [fw |-> 25, bw |-> BULLPEN_FIP_WEIGHT, pf |-> PARK_FACTOR_SCALE, ps |-> 1600, pp |-> 0],
            [fw |-> 50, bw |-> BULLPEN_FIP_WEIGHT, pf |-> PARK_FACTOR_SCALE, ps |-> 800, pp |-> 25],
            [fw |-> 50, bw |-> BULLPEN_FIP_WEIGHT, pf |-> PARK_FACTOR_SCALE, ps |-> 1600, pp |-> 0] >>

\* the season's data: whether the schedule and rating files exist, and the
\* home starter's season FIP (hundredths) and innings
SweepData ==
    [files : BOOLEAN, raw_fip : {320, 480}, pitcher_ip : {0, 20, 100}]

\* run_model under the configuration cfg: None when a file is missing, a
\* ZeroDivisionError from the regression of the FIP when
\* pitcher_ip + FIP_PRIOR_IP = 0, else the log loss of the one game
SweepRunModel(cfg, data, v2) ==
    IF ~data.files THEN [status |-> "none", log_loss |-> 0, home_fip |-> NA,
                         home_fip_adj |-> 0]
    ELSE IF data.pitcher_ip + cfg.pp = 0
    THEN [status |-> "raised", log_loss |-> 0, home_fip |-> NA, home_fip_adj |-> 0]
    ELSE LET home_fip == RoundDiv(data.pitcher_ip * data.raw_fip + cfg.pp * LgFip,
                                  data.pitcher_ip + cfg.pp)
             home_bp == IF v2 /\ cfg.bw > 0 THEN (LgBpFip - 380) * cfg.bw ELSE 0
             home_adj == (LgFip - home_fip) * cfg.fw + home_bp
             prob == ApplyShrinkage(cfg.ps,
                         ExpectedScore(AdjHomeElo + home_adj, AdjAwayElo, ELO_HFA))
         IN  [status |-> "ok", log_loss |-> ProbScale - prob, home_fip |-> home_fip,
              home_fip_adj |-> (LgFip - home_fip) * cfg.fw]

SweepInit ==
    /\ sweep_v2 \in BOOLEAN
    /\ sweep_data \in SweepData
    /\ sweep_i = 1
    /\ sweep_results = <<>>
    /\ sweep_pc = "loop"

\* one iteration of the innermost loop: the globals are set, run_model is
\* called; an error it raises leaves sweep_parameters
SweepConfig ==
    /\ sweep_pc = "loop"
    /\ sweep_i <= Len(SweepGrid(sweep_v2))
    /\ LET result == SweepRunModel(SweepGrid(sweep_v2)[sweep_i], sweep_data, sweep_v2)
       IN  /\ sweep_pc' = IF result.status = "raised" THEN "aborted" ELSE "loop"
           /\ sweep_results' = IF result.status = "ok"
                               THEN Append(sweep_results,
                                           [config |-> sweep_i,
                                            log_loss |-> result.log_loss])
                               ELSE sweep_results
           /\ sweep_i' = IF result.status = "raised" THEN sweep_i ELSE sweep_i + 1
    /\ UNCHANGED <<sweep_v2, sweep_data>>
    /\ UNCHANGED nonSweepVars

\* the loops are exhausted: the results are sorted, printed and written
SweepFinish ==
    /\ sweep_pc = "loop"
    /\ sweep_i > Len(SweepGrid(sweep_v2))
    /\ sweep_pc' = "done"
    /\ UNCHANGED <<sweep_v2, sweep_data, sweep_i, sweep_results>>
    /\ UNCHANGED nonSweepVars

NextSweep == SweepConfig \/ SweepFinish

\* the group while another part of the system is being exercised
SweepIdle ==
    /\ sweep_v2 = FALSE
    /\ sweep_data = <<>>
    /\ sweep_i = 0
    /\ sweep_results = <<>>
    /\ sweep_pc = "idle"

-----------------------------------------------------------------------------
(* C19: sweep failure isolation *)

Evaluated(k) == \E j \in 1..Len(sweep_results) : sweep_results[j].config = k

\* C19: a configuration whose backtest raises does not end the sweep, and
\* when the sweep has ended every configuration whose backtest does not
\* fail has been evaluated.
C19_FailureIsolated ==
    /\ sweep_pc # "aborted"
    /\ sweep_pc = "done" =>
        \A k \in 1..Len(SweepGrid(sweep_v2)) :
            SweepRunModel(SweepGrid(sweep_v2)[k], sweep_data, sweep_v2).status = "ok"
                => Evaluated(k)

\* a sweep in which no backtest raises evaluates the whole grid
C19_CompleteWithoutFailure ==
    (sweep_pc \in {"loop", "done"} /\ sweep_i > Len(SweepGrid(sweep_v2)) /\ sweep_data.files) =>
        \A k \in 1..Len(SweepGrid(sweep_v2)) : Evaluated(k)

\* the v1 sweep ended by the error of its second configuration: the third,
\* whose backtest succeeds, was never evaluated
C19_SweepAborted ==
    /\ sweep_pc = "aborted"
    /\ ~sweep_v2
    /\ sweep_i = 2
    /\ Len(sweep_results) = 1
    /\ SweepRunModel(SweepGrid(sweep_v2)[3], sweep_data, sweep_v2).status = "ok"
    /\ ~Evaluated(3)

-----------------------------------------------------------------------------
(* C20: disjoint games commute *)

\* one iteration of replay_elo_to_date (backtest-fade-curves.py): a game
\* with an unrated side is left out; MOV_CAP = None is cap 0
ReplayEloToDateStep(st, g, cap) ==
    IF ~Known(st.elos, g.home) \/ ~Known(st.elos, g.away) THEN st
    ELSE LET h_elo == st.elos[g.home]
             a_elo == st.elos[g.away]
             exp_h == ExpectedScore(h_elo, a_elo, ELO_HFA)
             score_diff == Abs(g.home_score - g.away_score)
             elo_diff == h_elo + ELO_HFA * Cents - a_elo
             raw == MarginOfVictoryMult(score_diff, elo_diff)
             m == IF cap = 0 THEN raw ELSE Min(raw, cap)
             actual_h == IF g.home_score > g.away_score THEN 1 ELSE 0
             shift == EloShift(BACKTEST_K, m, actual_h * ProbScale, exp_h)
         IN  [elos |-> [st.elos EXCEPT ![g.home] = h_elo + shift,
                                       ![g.away] = a_elo - shift],
              gp   |-> [st.gp EXCEPT ![g.home] = @ + 1, ![g.away] = @ + 1]]

\* the loops the claim is about, as step functions of the rating state;
\* replay_elo_to_date walks the rating states of backtest_season, whose
\* updates are the same
CommuteLoops == {"elo_compute", "replay_elo_to_date"}

LoopsAt(eng) ==
    CASE eng = "elo_compute" -> {"elo_compute"}
      [] eng = "backtest_season" -> {"replay_elo_to_date"}
      [] OTHER -> {}

LoopStep(loop, st, g, cap) ==
    IF loop = "elo_compute" THEN StepState("elo_compute", st, g, cap)
    ELSE ReplayEloToDateStep(st, g, cap)

TeamsOf(g) == {g.home, g.away}

\* the rating state with the rating of team t moved by ten points
Perturbed(st, t) == [st EXCEPT !.elos[t] = @ + 10 * Cents]

\* C20: from every rating state the two loops reach, two games of the list
\* whose team pairs are disjoint give the same ratings in either order, and
\* the update of a game changes no rating but those of its two teams and
\* does not depend on the rating of any other team.
C20_DisjointGamesCommute ==
    rpc # "load" =>
        \A loop \in LoopsAt(engine) :
        \A cap \in (IF loop = "elo_compute" THEN {mov_cap} ELSE {0, 800}) :
            LET st == [elos |-> elos, gp |-> games_played]
            IN  /\ \A i, j \in 1..Len(games) :
                    (i < j /\ TeamsOf(games[i]) \cap TeamsOf(games[j]) = {}) =>
                        LoopStep(loop, LoopStep(loop, st, games[i], cap), games[j], cap).elos
                          = LoopStep(loop, LoopStep(loop, st, games[j], cap), games[i], cap).elos
                /\ \A i \in 1..Len(games) :
                    LET nx == LoopStep(loop, st, games[i], cap)
                    IN  \A t \in ReplayTeams \ TeamsOf(games[i]) :
                            /\ nx.elos[t] = st.elos[t]
                            /\ Known(st.elos, t) =>
                                \A u \in TeamsOf(games[i]) :
                                    LoopStep(loop, Perturbed(st, t), games[i], cap).elos[u]
                                        = nx.elos[u]

\* the daily job has applied two games of disjoint pairs, and all four
\* ratings have moved
C20_Witness ==
    /\ engine = "elo_compute"
    /\ rpc # "load"
    /\ Len(games) = 2
    /\ gi = 3
    /\ TeamsOf(games[1]) \cap TeamsOf(games[2]) = {}
    /\ \A t \in ReplayTeams : Known(baseline, t) /\ elos[t] # baseline[t]
    /\ elos = LoopStep("elo_compute",
                       LoopStep("elo_compute", [elos |-> baseline, gp |-> ZeroPlayed],
                                games[2], mov_cap),
                       games[1], mov_cap).elos

-----------------------------------------------------------------------------
(* Single calls of the rating functions: expected_score and the            *)
(* margin-of-victory multipliers of the five modules that define one.      *)

\* the ratings expected_score is called with, in hundredths: whole points,
\* ratings rounded to two decimals as the rating log keeps them, 800 points apart at most
ScoreRatings ==
    { 110000, 130000, 148750, 149900, 150000, 150001, 150100, 151250,
      152000, 158125, 170000, 190000 }

\* the modules that define a margin-of-victory multiplier
MovImpls ==
    { "mlb_common.elo", "enhanced_model", "recompute_elo", "backtest_war_modes",
      "backtest_fade_curves" }

\* the cap is the name MOV_CAP of the module: not bound to a number
\* (NotConfigured), or a ceiling in 1/1000
NotConfigured == NA
MovCapConfigs == { NotConfigured, 800, 1250, 2500 }

\* the modules whose multiplier reads MOV_CAP; the other three have no such name
ReadsMovCap(impl) == impl \in { "mlb_common.elo", "backtest_fade_curves" }

ScoreCalls ==
    [ fn : {"expected_score"}, elo_a : ScoreRatings, elo_b : ScoreRatings,
      hfa : {0, ELO_HFA} ]

MovCalls ==
    { c \in [ fn : {"margin_of_victory_mult"}, impl : MovImpls, MOV_CAP : MovCapConfigs,
              score_diff : {-3, 0, 1, 2, 5, 11}, elo_diff : {-30000, -2500, 0, 4000, 20000} ] :
        ReadsMovCap(c.impl) \/ c.MOV_CAP = NotConfigured }

NoCall == [ fn |-> "none" ]
NoReturn == [ raised |-> "pending", value |-> 0 ]
Returned(v) == [ raised |-> "", value |-> v ]
Raised(e) == [ raised |-> e, value |-> 0 ]

\* what a call of impl's multiplier gives when the module's MOV_CAP is cap:
\*   mlb_common.elo imports MOV_CAP from mlb_common.config, which binds no such
\*     name unless the deployment adds it: the import of the module raises;
\*     with the name bound the result is min(raw, MOV_CAP);
\*   backtest-fade-curves: MOV_CAP = None gives raw, else min(raw, MOV_CAP);
\*   enhanced_model, recompute_elo, backtest-war-modes: raw
MovMult(impl, cap, score_diff, elo_diff) ==
    LET raw == MarginOfVictoryMult(score_diff, elo_diff)
    IN  CASE impl = "mlb_common.elo" ->
                 IF cap = NotConfigured THEN Raised("ImportError")
                 ELSE Returned(Min(raw, cap))
          [] impl = "backtest_fade_curves" ->
                 IF cap # NotConfigured THEN Returned(Min(raw, cap))
                 ELSE Returned(raw)
          [] OTHER -> Returned(raw)

FnInit ==
    /\ fn_call \in ScoreCalls \cup MovCalls
    /\ fn_ret = NoReturn

ExpectedScoreCall ==
    /\ fn_call.fn = "expected_score"
    /\ fn_ret = NoReturn
    /\ fn_ret' = Returned(ExpectedScore(fn_call.elo_a, fn_call.elo_b, fn_call.hfa))
    /\ UNCHANGED <<fn_call, nonFnVars>>

MarginOfVictoryMultCall ==
    /\ fn_call.fn = "margin_of_victory_mult"
    /\ fn_ret = NoReturn
    /\ fn_ret' = MovMult(fn_call.impl, fn_call.MOV_CAP, fn_call.score_diff, fn_call.elo_diff)
    /\ UNCHANGED <<fn_call, nonFnVars>>

NextFn ==
    \/ ExpectedScoreCall
    \/ MarginOfVictoryMultCall

FnIdle ==
    /\ fn_call = NoCall
    /\ fn_ret = NoReturn

-----------------------------------------------------------------------------
(* C21: with no home-field advantage expected_score(A, B, 0) and            *)
(* expected_score(B, A, 0) add up to 1, the value lies strictly between 0   *)
(* and 1, and it grows with A - B.                                          *)
(* Probabilities are kept to 1/10000 here: the sum is exact for ratings in  *)
(* whole points and within one unit of the last place for ratings with      *)
(* decimals (the doubles of the code agree to one unit in the last place    *)
(* likewise); growth is strict once A - B grows by two rating points.       *)

NeutralScoreReturned ==
    /\ fn_call.fn = "expected_score"
    /\ fn_call.hfa = 0
    /\ fn_ret # NoReturn

WholePoints(elo) == elo % Cents = 0

C21_ExpectedScoreSymmetry ==
    NeutralScoreReturned =>
        LET a == fn_call.elo_a
            b == fn_call.elo_b
            p == fn_ret.value
            q == ExpectedScore(b, a, 0)
        IN  /\ fn_ret.raised = ""
            /\ Abs(p + q - ProbScale) <= 1
            /\ (WholePoints(a) /\ WholePoints(b)) => p + q = ProbScale
            /\ 0 < p /\ p < ProbScale
            /\ \A a2 \in ScoreRatings, b2 \in ScoreRatings :
                  /\ (a2 - b2 >= a - b) => ExpectedScore(a2, b2, 0) >= p
                  /\ (a2 - b2 >= a - b + 2 * Cents /\ Abs(a2 - b2) <= LogisticSpan
                        /\ Abs(a - b) <= LogisticSpan)
                       => ExpectedScore(a2, b2, 0) > p

\* an underdog's neutral-site score has been returned
C21_Witness ==
    /\ NeutralScoreReturned
    /\ fn_call.elo_a < fn_call.elo_b
    /\ fn_ret.value < ProbScale \div 2

\* a pair of ratings with decimals whose rounded scores add up to 1 exactly
C21_WitnessDecimals ==
    /\ NeutralScoreReturned
    /\ ~WholePoints(fn_call.elo_a)
    /\ fn_call.elo_a # fn_call.elo_b
    /\ fn_ret.value + ExpectedScore(fn_call.elo_b, fn_call.elo_a, 0) = ProbScale

-----------------------------------------------------------------------------
(* C23: the margin-of-victory cap is off by default. Under the default      *)
(* configuration (no MOV_CAP configured) every call of the multiplier       *)
(* returns the uncapped value; with a cap configured it returns             *)
(* min(uncapped, cap).                                                      *)

MovReturned ==
    /\ fn_call.fn = "margin_of_victory_mult"
    /\ fn_ret # NoReturn

C23_MovCapOffByDefault ==
    MovReturned =>
        LET raw == MarginOfVictoryMult(fn_call.score_diff, fn_call.elo_diff)
        IN  IF fn_call.MOV_CAP = NotConfigured
            THEN fn_ret = Returned(raw)
            ELSE fn_ret = Returned(Min(raw, fn_call.MOV_CAP))

\* the claim holds of the four modules other than mlb_common.elo
C23_OffByDefaultOutsideCommon ==
    (MovReturned /\ fn_call.impl # "mlb_common.elo") =>
        LET raw == MarginOfVictoryMult(fn_call.score_diff, fn_call.elo_diff)
        IN  IF fn_call.MOV_CAP = NotConfigured
            THEN fn_ret = Returned(raw)
            ELSE fn_ret = Returned(Min(raw, fn_call.MOV_CAP))

\* mlb_common.elo under the default configuration: the call raised
C23_CommonRaisesByDefault ==
    /\ MovReturned
    /\ fn_call.impl = "mlb_common.elo"
    /\ fn_call.MOV_CAP = NotConfigured
    /\ fn_ret = Raised("ImportError")

-----------------------------------------------------------------------------
(* C22: starter-FIP resolution order. With rolling FIP enabled, the FIP     *)
(* used for a starter is the rolling FIP iff the rolling file has an entry  *)
(* for that pitcher and the game's date computed from at least 3 prior      *)
(* starts; otherwise it is the season FIP regressed toward the league       *)
(* average, looked up by pitcher id, then by normalized name; otherwise the *)
(* starter adjustment is 0.                                                 *)

\* run_model has processed a game with rolling FIP enabled (the season FIP
\* file, which the setup requires for either FIP feature, is present)
RollingEnabledDone ==
    /\ adj_pc = "done"
    /\ adj_impl = "run_model"
    /\ ctx.flags.use_rolling_fip
    /\ ctx.fip_loaded

\* the rolling file has an entry for the starter on the game's date that
\* was computed from at least 3 prior starts
RollingEntry(sp) ==
    /\ sp.id # 0
    /\ <<sp.id, ctx.date>> \in DOMAIN ctx.rolling_file
    /\ ctx.rolling_file[<<sp.id, ctx.date>>][2] >= 3

\* the season record the claim falls back on: by id, then by name, <<>> if none
SeasonRecord(sp) ==
    IF sp.id \in DOMAIN FipById THEN FipById[sp.id]
    ELSE IF sp.name # NoName /\ sp.name \in DOMAIN FipByName THEN FipByName[sp.name]
    ELSE <<>>

\* the starter adjustment the claim prescribes, before park scaling
ClaimedFipAdj(sp) ==
    IF RollingEntry(sp)
    THEN (LgFip - ctx.rolling_file[<<sp.id, ctx.date>>][1]) * FIP_WEIGHT
    ELSE IF SeasonRecord(sp) # <<>>
    THEN LET raw_fip == SeasonRecord(sp)[1]
             pitcher_ip == SeasonRecord(sp)[2]
         IN  (LgFip - RoundDiv(pitcher_ip * raw_fip + FIP_PRIOR_IP * LgFip,
                               pitcher_ip + FIP_PRIOR_IP)) * FIP_WEIGHT
    ELSE 0

C22_WitnessRolling ==
    /\ RollingEnabledDone
    /\ RollingEntry(ctx.home_sp)
    /\ ctx.home_sp.id \in DOMAIN FipById
    /\ adj_out.rolling_fip_used >= 1
    /\ adj_out.home_fip_adj = (LgFip - ctx.rolling_file[<<ctx.home_sp.id, ctx.date>>][1]) * FIP_WEIGHT

\* a starter absent from the rolling file and from fip_by_id, found by name
C22_WitnessByName ==
    /\ RollingEnabledDone
    /\ ctx.home_sp = [id |-> 3, name |-> "smith"]
    /\ <<3, ctx.date>> \notin DOMAIN ctx.rolling_file
    /\ adj_out.rolling_fip_used = 0
    /\ adj_out.home_fip_adj # 0

\* a starter whose only rolling row, from 7 prior starts, is of an earlier date
C22_WitnessOtherDate ==
    /\ RollingEnabledDone
    /\ ctx.home_sp.id = 2
    /\ DOMAIN ctx.rolling_file = {<<2, EarlierDate>>}
    /\ ctx.rolling_file[<<2, EarlierDate>>][2] = 7
    /\ adj_out.rolling_fip_used = 0
    /\ adj_out.home_fip_adj # 0

-----------------------------------------------------------------------------
(* The travel tracker of run_model: load_schedule, build_travel_tracker and *)
(* the look-up of the away team's previous venue in the game loop.          *)

MaxTrackGames == 3

TrackTeams == {"NYY", "BAL", "SEA"}
TrackDates == 1..2

TrackRows ==
    { r \in [date : TrackDates, home : TrackTeams, away : TrackTeams] : r.home # r.away }

\* two rows of one date that share a team are the games of a doubleheader
SameDayConsistent(rows) ==
    \A i \in 1..Len(rows), j \in 1..Len(rows) :
        (rows[i].date = rows[j].date
           /\ {rows[i].home, rows[i].away} \cap {rows[j].home, rows[j].away} # {})
        => (rows[i].home = rows[j].home /\ rows[i].away = rows[j].away)

\* the Final rows of the schedule file, in file order
TrackSchedules == { rows \in SeqsUpTo(TrackRows, MaxTrackGames) : SameDayConsistent(rows) }

PlaysIn(g, team) == g.home = team \/ g.away = team

\* team_games[team] after tg.sort(key=date)
TeamGames(gs, team) == SortByDate(SelectSeq(gs, LAMBDA g : PlaysIn(g, team)))

\* build_travel_tracker: (team, date) -> venue_team of the entry before the
\* last entry of that date in the team's sorted list; a later assignment to
\* the same key replaces an earlier one
BuildTravelTracker(gs) ==
    LET Entries(team, d) ==
            { i \in 2..Len(TeamGames(gs, team)) : TeamGames(gs, team)[i].date = d }
        Last(S) == CHOOSE i \in S : \A j \in S : j <= i
    IN  [ k \in { <<team, d>> \in TrackTeams \X TrackDates : Entries(team, d) # {} } |->
            TeamGames(gs, k[1])[Last(Entries(k[1], k[2])) - 1].home ]

TrackInit ==
    /\ travel_rows \in TrackSchedules
    /\ travel_games = <<>>
    /\ prev_venue = <<>>
    /\ travel_i = 0
    /\ travel_log = <<>>
    /\ travel_pc = "load"

\* the setup of run_model: load_schedule sorts the rows by date,
\* build_travel_tracker is given the sorted list
TrackLoad ==
    /\ travel_pc = "load"
    /\ travel_games' = SortByDate(travel_rows)
    /\ prev_venue' = BuildTravelTracker(SortByDate(travel_rows))
    /\ travel_i' = 1
    /\ travel_pc' = "loop"
    /\ UNCHANGED <<travel_rows, travel_log>>
    /\ UNCHANGED nonTrackVars

\* one iteration of the game loop: get_travel_penalty for the away team
TrackGame ==
    /\ travel_pc = "loop"
    /\ travel_i <= Len(travel_games)
    /\ LET game == travel_games[travel_i]
           prev == IF <<game.away, game.date>> \in DOMAIN prev_venue
                   THEN prev_venue[<<game.away, game.date>>] ELSE NoVenue
       IN  travel_log' = Append(travel_log,
               [prev |-> prev,
                travel_adj |-> GetTravelPenalty(game.home, prev, EastTz, FarDist)])
    /\ travel_i' = travel_i + 1
    /\ UNCHANGED <<travel_rows, travel_games, prev_venue, travel_pc>>
    /\ UNCHANGED nonTrackVars

TrackFinish ==
    /\ travel_pc = "loop"
    /\ travel_i > Len(travel_games)
    /\ travel_pc' = "done"
    /\ UNCHANGED <<travel_rows, travel_games, prev_venue, travel_i, travel_log>>
    /\ UNCHANGED nonTrackVars

NextTrack == TrackLoad \/ TrackGame \/ TrackFinish

TrackIdle ==
    /\ travel_rows = <<>>
    /\ travel_games = <<>>
    /\ prev_venue = <<>>
    /\ travel_i = 0
    /\ travel_log = <<>>
    /\ travel_pc = "idle"

-----------------------------------------------------------------------------
(* C24: for every game after a team's first, the previous venue used to     *)
(* decide the team's travel penalty is the venue of the team's immediately  *)
(* preceding game in chronological schedule order, also when the team plays *)
(* two games on one date (for the first of them it is the venue of the last *)
(* game of the earlier date).                                               *)

\* the games before game k in schedule order that the team played in
EarlierGames(k, team) == { j \in 1..(k - 1) : PlaysIn(travel_games[j], team) }

\* the venue of the team's immediately preceding game, NoVenue for its first
PrecedingVenue(k, team) ==
    IF EarlierGames(k, team) = {} THEN NoVenue
    ELSE travel_games[CHOOSE j \in EarlierGames(k, team) :
                          \A h \in EarlierGames(k, team) : h <= j].home

\* the team plays another game on the date of game k
PlaysTwiceOnDateOf(k, team) ==
    \E j \in 1..Len(travel_games) :
        j # k /\ PlaysIn(travel_games[j], team)
              /\ travel_games[j].date = travel_games[k].date

C24_PreviousVenueIsPrecedingGame ==
    \A k \in 1..Len(travel_log) :
        EarlierGames(k, travel_games[k].away) # {}
        => travel_log[k].prev = PrecedingVenue(k, travel_games[k].away)

\* the claim holds of every game of a team that plays once on that date
C24_PrecedingGameOncePerDate ==
    \A k \in 1..Len(travel_log) :
        (EarlierGames(k, travel_games[k].away) # {}
           /\ ~PlaysTwiceOnDateOf(k, travel_games[k].away))
        => travel_log[k].prev = PrecedingVenue(k, travel_games[k].away)

\* a team came from Seattle to a doubleheader in Baltimore: for the first
\* game the tracker named Baltimore as the previous venue and no penalty
\* was applied
C24_DoubleheaderOpener ==
    \E k \in 1..Len(travel_log) :
        /\ k < Len(travel_games)
        /\ travel_games[k].home = "BAL"
        /\ travel_games[k + 1] = travel_games[k]
        /\ PrecedingVenue(k, travel_games[k].away) = "SEA"
        /\ travel_log[k].prev = "BAL"
        /\ travel_log[k].travel_adj = 0

-----------------------------------------------------------------------------
(* C25: the FIP regression guards its denominator. For every starter with   *)
(* innings IP >= 0 and every prior strength priorIP >= 0 the model or its   *)
(* sweeps use, priorIP = 0 included: when IP + priorIP = 0 the starter      *)
(* adjustment is 0 and no error is raised; otherwise the regressed FIP lies *)
(* between the raw FIP and the league FIP.                                  *)

\* the configurations run_model has been called with so far
ConfigsRun ==
    { k \in 1..Len(SweepGrid(sweep_v2)) :
        k < sweep_i \/ (k = sweep_i /\ sweep_pc = "aborted") }

Between(x, a, b) == Min(a, b) <= x /\ x <= Max(a, b)

C25_RegressionDenominatorGuarded ==
    \A k \in ConfigsRun :
        sweep_data.files =>
            LET cfg == SweepGrid(sweep_v2)[k]
                run == SweepRunModel(cfg, sweep_data, sweep_v2)
            IN  /\ run.status # "raised"
                /\ IF sweep_data.pitcher_ip + cfg.pp = 0
                   THEN run.home_fip_adj = 0
                   ELSE Between(run.home_fip, sweep_data.raw_fip, LgFip)

\* with a denominator other than 0 the regressed FIP lies between the raw
\* FIP and the league FIP
C25_RegressedBetweenRawAndLeague ==
    \A k \in ConfigsRun :
        LET cfg == SweepGrid(sweep_v2)[k]
            run == SweepRunModel(cfg, sweep_data, sweep_v2)
        IN  (sweep_data.files /\ sweep_data.pitcher_ip + cfg.pp # 0)
            => /\ run.status = "ok"
               /\ Between(run.home_fip, sweep_data.raw_fip, LgFip)

\* the v1 sweep reached a prior of 0 with a starter of 0 innings: the
\* regression divided by zero
C25_ZeroDenominatorRaised ==
    /\ sweep_pc = "aborted"
    /\ ~sweep_v2
    /\ sweep_data.pitcher_ip = 0
    /\ SweepGrid(sweep_v2)[sweep_i].pp = 0
    /\ SweepRunModel(SweepGrid(sweep_v2)[sweep_i], sweep_data, sweep_v2).status = "raised"

-----------------------------------------------------------------------------
(* C26: the blend weight is per team. In the game-by-game backtest the      *)
(* preseason blend weight applied to a team's rating for a game is          *)
(* min(the team's own games played before the game / fadeGames, 1),         *)
(* whatever the number of games its opponent has played.                    *)

\* min(gp / fade, 1) of the team's own games played, in 1/1000
OwnWeight(t) == RoundDiv(Min(team_gp[t], fade_n) * PctScale, fade_n)

\* the team's rating blended with its own weight, in hundredths
OwnBlend(t) ==
    RoundDiv(Min(team_gp[t], fade_n) * current_elo[t]
               + (fade_n - Min(team_gp[t], fade_n)) * preseason_elo[t], fade_n)

BacktestBlended ==
    /\ fade_impl = "backtest_season"
    /\ fade_n > 0
    /\ Blended = FadeTeams

C26_BlendWeightPerTeam ==
    BacktestBlended =>
        \A t \in FadeTeams :
            /\ pct[t] = OwnWeight(t)
            /\ regressed[t] = OwnBlend(t)

\* the weight is the team's own when the two teams have played equally often
C26_PerTeamWhenEqualGames ==
    (BacktestBlended /\ team_gp["BAL"] = team_gp["BOS"]) =>
        \A t \in FadeTeams :
            /\ pct[t] = OwnWeight(t)
            /\ regressed[t] = OwnBlend(t)

\* a team one game into its season met a team 50 games into its own: both
\* were blended with the weight of 25.5 games
C26_OpponentSetsWeight ==
    /\ BacktestBlended
    /\ fade_n = FADE_GAMES
    /\ team_gp["BAL"] = 1
    /\ team_gp["BOS"] = 50
    /\ OwnWeight("BAL") = 10
    /\ pct["BAL"] = 255
    /\ pct["BOS"] = 255
    /\ regressed["BAL"] # OwnBlend("BAL")

-----------------------------------------------------------------------------
(* The daily pipeline over several days: the schedule sync rewrites the     *)
(* schedule file from what the MLB API reports, mlb-elo-compute loads the   *)
(* ratings from the current-season log, applies yesterday's completed games *)
(* and appends their rows to the log.                                       *)

\* the last UTC day of a run, and the invocations of mlb-elo-compute on one
\* day (the schedule sync, which only rewrites its file, runs once)
MaxDay == 4
MaxInvocations == 2

DailyTeams == {"BAL", "BOS", "NYY"}

\* the prior-season baseline, in hundredths
DailyBaseline ==
    [t \in DailyTeams |-> IF t = "BAL" THEN 152000 ELSE IF t = "BOS" THEN 150000 ELSE 149000]

\* MOV_CAP of the deployment, in 1/1000
DailyMovCap == 2500

\* the official dates of the games: early enough for the job of the day
\* after to run on every one of them
GameDates == 1..(MaxDay - 2)

\* a season of two games: gamePk 1 ends 5-3, gamePk 2 ends 2-4; the file
\* lists them by date; a team plays one opponent at one venue on a date
Seasons ==
    { s \in [1..2 -> [date : GameDates, home : DailyTeams, away : DailyTeams]] :
        /\ \A pk \in 1..2 : s[pk].home # s[pk].away
        /\ s[1].date <= s[2].date
        /\ (s[1].date = s[2].date /\ {s[1].home, s[1].away} \cap {s[2].home, s[2].away} # {})
             => s[1] = s[2] }

HomeScore(pk) == IF pk = 1 THEN 5 ELSE 2
AwayScore(pk) == IF pk = 1 THEN 3 ELSE 4

\* the rows of a log that name the team in the given column
RowsOf(log, team, column) ==
    { i \in 1..Len(log) : IF column = "homeTeam" THEN log[i].homeTeam = team
                          ELSE log[i].awayTeam = team }

\* sort_values('date').groupby(column)[post].last(): for every team with
\* rows in the column, the post-game rating of a row of its latest date (the
\* default sort is not stable: among the rows of one date any may come last)
LatestByColumn(log, column) ==
    LET teams == { t \in DailyTeams : RowsOf(log, t, column) # {} }
        LatestDate(t) == CHOOSE d \in { log[i].date : i \in RowsOf(log, t, column) } :
                             \A i \in RowsOf(log, t, column) : log[i].date <= d
        Post(i) == IF column = "homeTeam" THEN log[i].homeElo_post ELSE log[i].awayElo_post
    IN  { f \in [teams -> { Post(i) : i \in 1..Len(log) }] :
            \A t \in teams : \E i \in RowsOf(log, t, column) :
                log[i].date = LatestDate(t) /\ f[t] = Post(i) }

\* team_elo after the load: the baseline, updated with the latest home
\* values, then with the latest away values
LoadTeamElo(latest_home, latest_away) ==
    [t \in DailyTeams |->
        IF t \in DOMAIN latest_away THEN latest_away[t]
        ELSE IF t \in DOMAIN latest_home THEN latest_home[t]
        ELSE DailyBaseline[t]]

\* games: the rows of the schedule dated yesterday that have both scores
YesterdaysCompleted(s, scored, day) ==
    SelectSeq(<<1, 2>>, LAMBDA pk : s[pk].date = day - 1 /\ pk \in scored)

RECURSIVE ApplyGames(_, _, _)
\* the loop over games: the ratings after it and the rows it collected
ApplyGames(s, pks, state) ==
    IF pks = <<>> THEN state
    ELSE LET pk == Head(pks)
             g == [home |-> s[pk].home, away |-> s[pk].away,
                   home_score |-> HomeScore(pk), away_score |-> AwayScore(pk)]
             after == EloComputeUpdate([elos |-> state.team_elo], g, DailyMovCap).elos
         IN  ApplyGames(s, Tail(pks),
                 [team_elo |-> after,
                  elo_rows |-> Append(state.elo_rows,
                      [date |-> s[pk].date, gamePk |-> pk,
                       homeTeam |-> g.home, awayTeam |-> g.away,
                       homeElo_post |-> after[g.home],
                       awayElo_post |-> after[g.away]])])

DailyInit ==
    /\ season \in Seasons
    /\ today = 1
    /\ api_final = {}
    /\ schedule_csv = {}
    /\ elo_csv = <<>>
    /\ load_record = [team_elo |-> DailyBaseline, rows |-> 0, day |-> 0]
    /\ sync_runs = 0
    /\ elo_runs = 0
    /\ reinvoked = FALSE

\* a game ends: the API reports its final score from now on. A game ends on
\* the UTC day of its official date or, played late, on the day after
GameEnds ==
    /\ \E pk \in 1..2 :
          /\ pk \notin api_final
          /\ today \in {season[pk].date, season[pk].date + 1}
          /\ api_final' = api_final \cup {pk}
    /\ UNCHANGED <<season, today, schedule_csv, elo_csv, load_record, sync_runs, elo_runs,
                   reinvoked>>
    /\ UNCHANGED nonDailyVars

\* mlb-schedule-sync: the file is rewritten with the scores the API reports
ScheduleSync ==
    /\ sync_runs < 1
    /\ schedule_csv' = api_final
    /\ sync_runs' = sync_runs + 1
    /\ UNCHANGED <<season, today, api_final, elo_csv, load_record, elo_runs, reinvoked>>
    /\ UNCHANGED nonDailyVars

\* mlb-elo-compute: one invocation
EloCompute ==
    /\ elo_runs < MaxInvocations
    /\ \E latest_home \in LatestByColumn(elo_csv, "homeTeam"),
          latest_away \in LatestByColumn(elo_csv, "awayTeam") :
          LET team_elo0 == LoadTeamElo(latest_home, latest_away)
              done == ApplyGames(season, YesterdaysCompleted(season, schedule_csv, today),
                                 [team_elo |-> team_elo0, elo_rows |-> <<>>])
          IN  /\ load_record' = [team_elo |-> team_elo0, rows |-> Len(elo_csv), day |-> today]
              /\ elo_csv' = elo_csv \o done.elo_rows
    /\ elo_runs' = elo_runs + 1
    /\ reinvoked' = (reinvoked \/ elo_runs >= 1)
    /\ UNCHANGED <<season, today, api_final, schedule_csv, sync_runs>>
    /\ UNCHANGED nonDailyVars

\* midnight UTC; both jobs have run during the day
NextDay ==
    /\ today < MaxDay
    /\ sync_runs >= 1
    /\ elo_runs >= 1
    /\ today' = today + 1
    /\ sync_runs' = 0
    /\ elo_runs' = 0
    /\ UNCHANGED <<season, api_final, schedule_csv, elo_csv, load_record, reinvoked>>
    /\ UNCHANGED nonDailyVars

NextDaily == GameEnds \/ ScheduleSync \/ EloCompute \/ NextDay

DailyIdle ==
    /\ season = <<>>
    /\ today = 0
    /\ api_final = {}
    /\ schedule_csv = {}
    /\ elo_csv = <<>>
    /\ load_record = [team_elo |-> <<>>, rows |-> 0, day |-> 0]
    /\ sync_runs = 0
    /\ elo_runs = 0
    /\ reinvoked = FALSE

-----------------------------------------------------------------------------
(* C27: most-recent rating on load. At the start of each daily rating       *)
(* update the rating loaded for a team that has rows in the current-season  *)
(* log is the post-game rating of the chronologically latest log row        *)
(* involving that team, whether it was home or away in that row; a team     *)
(* with no rows keeps the prior-season baseline.                            *)

\* the log as the latest invocation read it
LogAtLoad == SubSeq(elo_csv, 1, load_record.rows)

\* the rows of the log the team played in
RowsInvolving(log, team) ==
    { i \in 1..Len(log) : log[i].homeTeam = team \/ log[i].awayTeam = team }

\* the chronologically latest row involving the team: the last row of its
\* latest date
LatestRow(log, team) ==
    CHOOSE i \in RowsInvolving(log, team) :
        \A j \in RowsInvolving(log, team) :
            log[j].date < log[i].date \/ (log[j].date = log[i].date /\ j <= i)

\* the team's post-game rating of a row
PostRating(row, team) ==
    IF row.homeTeam = team THEN row.homeElo_post ELSE row.awayElo_post

C27_LoadsMostRecentRating ==
    load_record.day >= 1 =>
        \A t \in DailyTeams :
            IF RowsInvolving(LogAtLoad, t) = {}
            THEN load_record.team_elo[t] = DailyBaseline[t]
            ELSE load_record.team_elo[t]
                   = PostRating(LogAtLoad[LatestRow(LogAtLoad, t)], t)

\* a team with no rows keeps the baseline; a team with one row is loaded
\* with the post-game rating of that row
C27_LoadsBaselineOrOnlyRow ==
    load_record.day >= 1 =>
        \A t \in DailyTeams :
            /\ RowsInvolving(LogAtLoad, t) = {} => load_record.team_elo[t] = DailyBaseline[t]
            /\ (\E i \in 1..Len(LogAtLoad) : RowsInvolving(LogAtLoad, t) = {i})
                 => load_record.team_elo[t]
                      = PostRating(LogAtLoad[LatestRow(LogAtLoad, t)], t)

\* a team played away on day 1 and at home on day 2: the rating loaded
\* for it afterwards is the one it had after the away game
C27_StaleAwayRatingLoaded ==
    /\ load_record.rows = 2
    /\ \E t \in DailyTeams :
          /\ LogAtLoad[1].awayTeam = t /\ LogAtLoad[1].date = 1
          /\ LogAtLoad[2].homeTeam = t /\ LogAtLoad[2].date = 2
          /\ load_record.team_elo[t] = LogAtLoad[1].awayElo_post
          /\ load_record.team_elo[t] # LogAtLoad[2].homeElo_post

-----------------------------------------------------------------------------
(* C29: each game is applied at most once. Across any sequence of           *)
(* invocations of the daily rating update, more than one on the same UTC    *)
(* day included, each completed game changes the ratings of its two teams   *)
(* at most once and is appended to the current-season log at most once.     *)

\* the rows of the log written for a game
RowsOfGame(pk) == { i \in 1..Len(elo_csv) : elo_csv[i].gamePk = pk }

C29_GameAppliedAtMostOnce ==
    \A pk \in 1..2 : Cardinality(RowsOfGame(pk)) <= 1

\* with one invocation a day each game is applied at most once
C29_AtMostOnceWithOneInvocationADay ==
    ~reinvoked => \A pk \in 1..2 : Cardinality(RowsOfGame(pk)) <= 1

\* the job ran twice on the day after a game: the log has two rows for
\* the game and the second moved the ratings again
C29_GameAppliedTwice ==
    /\ reinvoked
    /\ \E i \in 1..Len(elo_csv), j \in 1..Len(elo_csv) :
          /\ i < j
          /\ elo_csv[i].gamePk = elo_csv[j].gamePk
          /\ elo_csv[j].homeElo_post # elo_csv[i].homeElo_post
          /\ elo_csv[j].awayElo_post # elo_csv[i].awayElo_post

-----------------------------------------------------------------------------
(* C30: every completed game is eventually applied. If the schedule sync    *)
(* and the daily rating update each run every day, every game that ends     *)
(* with both scores recorded in the schedule is eventually reflected in the *)
(* ratings of its two teams, whatever the interleaving of the two jobs and  *)
(* whichever day the scores first appear in the schedule.                   *)
(* An invocation applies the games dated the day before it only: a game     *)
(* that has no row in the log two days after its date never gets one.       *)

Applied(pk) == RowsOfGame(pk) # {}

\* no invocation to come looks at the game's date any more
PastItsUpdate(pk) == today >= season[pk].date + 2

C30_CompletedGameApplied ==
    \A pk \in 1..2 :
        (pk \in schedule_csv /\ PastItsUpdate(pk)) => Applied(pk)

\* an invocation on the day after a game's date that finds both scores in
\* the schedule leaves a row for the game in the log
C30_AppliedWhenScoredInTime ==
    [][ \A pk \in 1..2 :
          ( /\ elo_runs' > elo_runs
            /\ pk \in schedule_csv
            /\ today = season[pk].date + 1 )
          => \E i \in 1..Len(elo_csv') : elo_csv'[i].gamePk = pk ]_dailyVars

\* both scores of a game are in the schedule, both jobs have run on every
\* day, and the game has not been applied two days after its date
C30_CompletedGameMissed ==
    \E pk \in 1..2 :
        /\ pk \in schedule_csv
        /\ PastItsUpdate(pk)
        /\ ~Applied(pk)
        /\ ~reinvoked

-----------------------------------------------------------------------------
(* C28: full injury penalty in the effective rating. In a season-           *)
(* projections run, for every team and every number of games played, the    *)
(* rating passed to the simulator is lower than the rating the same run     *)
(* would pass with no injuries by exactly the team's injury penalty, also   *)
(* when preseason blending is active.                                       *)

\* the stores of the run without injury-adjustments-latest.json
WithoutInjuries(objects) ==
    [k \in DOMAIN objects \ {<<ELO_BUCKET, "injury-adjustments-latest.json">>} |-> objects[k]]

\* the injury adjustment the run loaded for a team: zero or below
LoadedInjuryAdj(t) ==
    LET injury_adj == ReadOrNone(s3_objects, ELO_BUCKET, "injury-adjustments-latest.json")
    IN  IF t \in DOMAIN injury_adj THEN injury_adj[t] ELSE 0

\* the blend of the run moves the rating of a team
BlendActive(t) ==
    LET preseason == ReadOrNone(s3_objects, ELO_BUCKET, "preseason-elo.json")
    IN  /\ preseason # <<>>
        /\ preseason[t] # NoRating
        /\ proj_gp[t] < FADE_GAMES

ProjLoaded == proj_pc # "load"

C28_FullInjuryPenalty ==
    ProjLoaded =>
        \A t \in DOMAIN elo_items :
            adjusted_elo[t] =
                AdjustedElo(elo_items, WithoutInjuries(s3_objects), proj_gp)[t]
                    + LoadedInjuryAdj(t)

\* the whole penalty is in the rating of a team the blend leaves alone
C28_FullPenaltyOutsideBlend ==
    ProjLoaded =>
        \A t \in DOMAIN elo_items :
            ~BlendActive(t) =>
                adjusted_elo[t] =
                    AdjustedElo(elo_items, WithoutInjuries(s3_objects), proj_gp)[t]
                        + LoadedInjuryAdj(t)

\* before its first game an injured team is passed its preseason rating:
\* nothing of its penalty of 12.70 points is left
C28_PenaltyBlendedAway ==
    /\ ProjLoaded
    /\ LoadedInjuryAdj("BAL") = -1270
    /\ BlendActive("BAL")
    /\ proj_gp["BAL"] = 0
    /\ adjusted_elo["BAL"] =
          AdjustedElo(elo_items, WithoutInjuries(s3_objects), proj_gp)["BAL"]

-----------------------------------------------------------------------------
(* The specifications: each exercises one part of the system and holds the
   variables of the other parts at rest *)

\* the replay group while another part of the system is being exercised
ReplayIdle ==
    /\ engine = "none"
    /\ raw_rows = <<>>
    /\ games = <<>>
    /\ rpc = "idle"
    /\ gi = 1
    /\ elos = EmptyTable
    /\ baseline = EmptyTable
    /\ games_played = ZeroPlayed
    /\ fade_games = 0
    /\ mov_cap = 0
    /\ results = <<>>

\* the simulation group while another part of the system is being exercised
SimIdle ==
    /\ sim_impl = "none"
    /\ schedule = <<>>
    /\ elo_ratings = EmptyTable
    /\ elo_given = EmptyTable
    /\ fip_on = FALSE
    /\ sim_pc = "idle"
    /\ fi = 1
    /\ actual_wins = ZeroPlayed
    /\ sim_matrix = <<>>
    /\ sim_log = <<>>

\* the playoff-odds group while another part of the system is being exercised
OddsIdle ==
    /\ odds_impl = "none"
    /\ odds_teams = <<>>
    /\ odds_pc = "idle"
    /\ sim_idx = 0
    /\ al_wins = ZeroCount
    /\ div_winners = {}
    /\ wc_teams = {}
    /\ playoff_count = ZeroCount
    /\ division_count = ZeroCount
    /\ wildcard_count = ZeroCount

\* the blending group while another part of the system is being exercised
FadeIdle ==
    /\ fade_impl = "none"
    /\ curve = "linear"
    /\ fade_n = 0
    /\ current_elo = NoBlend
    /\ preseason_elo = NoBlend
    /\ team_gp = [t \in FadeTeams |-> 0]
    /\ fade_queue = <<>>
    /\ regressed = NoBlend
    /\ pct = [t \in FadeTeams |-> NA]
    /\ fade_pc = "idle"

\* the shrinkage group while another part of the system is being exercised
ShrinkIdle ==
    /\ shrink_impl = "none"
    /\ shrinkage = 0
    /\ raw_probs = <<>>
    /\ shrunk_log = <<>>
    /\ shrink_pc = "idle"

\* the game-by-game replays
Init == ReplayInit /\ SimIdle /\ OddsIdle /\ FadeIdle /\ ShrinkIdle /\
                      StoreIdle /\ AdjIdle /\ InjIdle /\ PreIdle /\
                      ProjIdle /\ SweepIdle /\ FnIdle /\ TrackIdle /\
                      DailyIdle

Spec == Init /\ [][Next]_vars

\* the Monte Carlo season simulation
InitSim == SimInit /\ ReplayIdle /\ OddsIdle /\ FadeIdle /\ ShrinkIdle /\
                      StoreIdle /\ AdjIdle /\ InjIdle /\ PreIdle /\
                      ProjIdle /\ SweepIdle /\ FnIdle /\ TrackIdle /\
                      DailyIdle

SpecSim == InitSim /\ [][NextSim]_vars

\* the playoff-odds calculation
InitOdds == OddsInit /\ ReplayIdle /\ SimIdle /\ FadeIdle /\ ShrinkIdle /\
                        StoreIdle /\ AdjIdle /\ InjIdle /\ PreIdle /\
                        ProjIdle /\ SweepIdle /\ FnIdle /\ TrackIdle /\
                        DailyIdle

SpecOdds == InitOdds /\ [][NextOdds]_vars

\* the preseason blending
InitFade == FadeInit /\ ReplayIdle /\ SimIdle /\ OddsIdle /\ ShrinkIdle /\
                        StoreIdle /\ AdjIdle /\ InjIdle /\ PreIdle /\
                        ProjIdle /\ SweepIdle /\ FnIdle /\ TrackIdle /\
                        DailyIdle

SpecFade == InitFade /\ [][NextFade]_vars

\* the probability shrinkage
InitShrink == ShrinkInit /\ ReplayIdle /\ SimIdle /\ OddsIdle /\ FadeIdle /\
                            StoreIdle /\ AdjIdle /\ InjIdle /\ PreIdle /\
                            ProjIdle /\ SweepIdle /\ FnIdle /\ TrackIdle /\
                            DailyIdle

SpecShrink == InitShrink /\ [][NextShrink]_vars

\* the daily rating job on float ratings
InitStore == StoreInit /\ ReplayIdle /\ SimIdle /\ OddsIdle /\ FadeIdle /\
                          ShrinkIdle /\ AdjIdle /\ InjIdle /\ PreIdle /\
                          ProjIdle /\ SweepIdle /\ FnIdle /\ TrackIdle /\
                          DailyIdle

SpecStore == InitStore /\ [][NextStore]_vars

\* the adjustment model for one game
InitAdj == AdjInit /\ ReplayIdle /\ SimIdle /\ OddsIdle /\ FadeIdle /\
                      ShrinkIdle /\ StoreIdle /\ InjIdle /\ PreIdle /\
                      ProjIdle /\ SweepIdle /\ FnIdle /\ TrackIdle /\
                      DailyIdle

SpecAdj == InitAdj /\ [][NextAdj]_vars

\* the injury adjustment of one team
InitInj == InjInit /\ ReplayIdle /\ SimIdle /\ OddsIdle /\ FadeIdle /\
                      ShrinkIdle /\ StoreIdle /\ AdjIdle /\ PreIdle /\
                      ProjIdle /\ SweepIdle /\ FnIdle /\ TrackIdle /\
                      DailyIdle

SpecInj == InitInj /\ [][NextInj]_vars

\* the preseason-adjustment job
InitPre == PreInit /\ ReplayIdle /\ SimIdle /\ OddsIdle /\ FadeIdle /\
                      ShrinkIdle /\ StoreIdle /\ AdjIdle /\ InjIdle /\
                      ProjIdle /\ SweepIdle /\ FnIdle /\ TrackIdle /\
                      DailyIdle

SpecPre == InitPre /\ [][NextPre]_vars

\* one run of the season-projections job
InitProj == ProjInit /\ ReplayIdle /\ SimIdle /\ OddsIdle /\ FadeIdle /\
                        ShrinkIdle /\ StoreIdle /\ AdjIdle /\ InjIdle /\
                        PreIdle /\ SweepIdle /\ FnIdle /\ TrackIdle /\
                        DailyIdle

SpecProj == InitProj /\ [][NextProj]_vars

\* the parameter sweep
InitSweep == SweepInit /\ ReplayIdle /\ SimIdle /\ OddsIdle /\ FadeIdle /\
                          ShrinkIdle /\ StoreIdle /\ AdjIdle /\ InjIdle /\
                          PreIdle /\ ProjIdle /\ FnIdle /\ TrackIdle /\
                          DailyIdle

SpecSweep == InitSweep /\ [][NextSweep]_vars

\* single calls of the rating functions
InitFn == FnInit /\ ReplayIdle /\ SimIdle /\ OddsIdle /\ FadeIdle /\
                    ShrinkIdle /\ StoreIdle /\ AdjIdle /\ InjIdle /\
                    PreIdle /\ ProjIdle /\ SweepIdle /\ TrackIdle /\ DailyIdle

SpecFn == InitFn /\ [][NextFn]_vars

\* the travel tracker
InitTrack == TrackInit /\ ReplayIdle /\ SimIdle /\ OddsIdle /\ FadeIdle /\
                          ShrinkIdle /\ StoreIdle /\ AdjIdle /\ InjIdle /\
                          PreIdle /\ ProjIdle /\ SweepIdle /\ FnIdle /\
                          DailyIdle

SpecTrack == InitTrack /\ [][NextTrack]_vars

\* the daily pipeline over several days
InitDaily == DailyInit /\ ReplayIdle /\ SimIdle /\ OddsIdle /\ FadeIdle /\
                          ShrinkIdle /\ StoreIdle /\ AdjIdle /\ InjIdle /\
                          PreIdle /\ ProjIdle /\ SweepIdle /\ FnIdle /\
                          TrackIdle

SpecDaily == InitDaily /\ [][NextDaily]_vars
=============================================================================
